---- MODULE Spec2Model ----
(***************************************************************************)
(* Tree-lifecycle protocol of the off-chain whitelist service: the roots   *)
(* row state machine, the proofs table and the CSV blob of ONE whitelist   *)
(* name, driven by concurrent requests.  One action is one I/O call (the   *)
(* only suspension points of a request) together with the straight-line    *)
(* code that follows it up to the next I/O call.                           *)
(***************************************************************************)
EXTENDS Integers, Naturals, Sequences, FiniteSets, TLC

\* ---------------------------------------------------------------- bounds
\* Number of concurrent request slots (each runs one call at a time and is
\* reused for the next call).
NReq == 2
\* Number of distinct valid whitelist contents that can be uploaded.
NContents == 2
\* Largest number of entries of a whitelist.
MaxEntries == 3
\* Items per BatchExecuteStatement / BatchWrite request.  The source uses 25
\* for both (BatchExecuteMaxItems, BatchWriteMaxItems); the model scales the
\* stride down so that a whitelist of MaxEntries entries spans two chunks.
BatchExecuteMaxItems == 2
BatchWriteMaxItems == 2

\* ------------------------------------------------------ program constants
BatchWriteDefaultMaxRetries == 3

Reqs == 1..NReq
Contents == 1..NContents
Addrs == 1..MaxEntries

\* The validated entries of whitelist content c, as checksummed addresses in
\* CSV order.  The Merkle root of content c is identified with c (distinct
\* contents give distinct roots); the proof stored for an address under a
\* tree is identified with the tree.
WhitelistOf(c) == [i \in 1..(MaxEntries - c + 1) |-> i + c - 1]

\* WhitelistStatus enum plus the absence of a row.
Creating == "CREATING"
Completed == "COMPLETED"
Failed == "FAILED"
Deleting == "DELETING"
Absent == [root |-> 0, status |-> "ABSENT"]
Row(r, s) == [root |-> r, status |-> s]

\* Error kinds.  A provider error of a KV call that is not a condition
\* failure (InternalServerError, RequestLimitExceeded, ...) is represented by
\* InternalServerError; the data service passes the provider's name through.
KvError == "InternalServerError"
S3Error == "S3ServiceException"
CondFailed == "ConditionalCheckFailedException"
DuplicateItem == "DuplicateItemException"
BatchStatementError == "Error"
\* ValidationError, told apart by its message.
TreeNotFound == "Validation: Merkle tree not found"
TreePending == "Validation: Merkle tree pending"
TreeNotReady == "Validation: Merkle tree not ready"
TreeNotCompleted == "Validation: Merkle tree not completed"
TreeExistsError == "Validation: Merkle tree exists"
Validation == {TreeNotFound, TreePending, TreeNotReady, TreeNotCompleted, TreeExistsError}
NotFoundS3 == "ResourceNotFound"
Exists == "PreconditionFailed"
Ok == "ok"
None == "none"

VARIABLES
    blob,       \* object store: content id stored at <name>.csv, 0 = no blob
    rootsRow,   \* roots table: the row of the name, or Absent
    proofs,     \* proofs table: address -> tree whose proof row is stored, 0 = none
    pc,         \* per request: the I/O call it is about to make, or "idle"
    root,       \* per request: the Merkle root it built (create) or read (delete, getMerkleProofs)
    idx,        \* per request: create: records already submitted; delete: retryCount;
                \* getMerkleProofs: last evaluated key
    keys,       \* per request: delete: sort keys of the chunks not yet started
    cmd,        \* per request: delete: items of the current BatchWrite command;
                \* getMerkleProofs: records read
    res,        \* per request: outcome of its last call (pending error while compensating)
    owner,      \* history: the request whose write gave rootsRow its current value
    ovl         \* history: per request, what overlapping calls did during its call

\* The Merkle builder, the on-chain verifier and the proof lookup, on one
\* whitelist at a time and with every store call succeeding.
VARIABLES
    whitelistEntries,   \* rows parsed from the stored CSV
    bpc,                \* position: "parsed", "built", "stored", "done"
    thrown,             \* error that ended createMerkleTree, or None
    built,              \* root and MerkleProofRecords handed to the data service
    stored,             \* roots row and proof rows written by the data service
    checked,            \* last isWhitelistedFor call: its arguments and outcome
    answer              \* last getMerkleProof call: its argument and outcome

\* Paging through the roots table (getMerkleRoots, getMerkleTrees) while no
\* write intervenes.
VARIABLES
    scanTable,          \* roots table: the set of its rows
    pageSize,           \* pageSize of every request of the paging
    nextToken,          \* startingToken of the next request, 0 = none
    pages,              \* the MerkleRoots arrays returned so far
    ppc,                \* position: "idle", "paging", "end" (a page came without token), "invalid"
    treesCall           \* last getMerkleTrees call: its token and result

\* One request at the route boundary (lambdaHandler).
VARIABLES
    request,            \* the event: route key, group configuration, caller, body
    response,           \* the handler's answer, or NoResponse
    rpc                 \* position: "idle", "received", "authorized", "answered"

\* The on-chain verifier contract.
VARIABLES
    merkleRoot,         \* bytes32 public merkleRoot
    contractOwner,      \* owner() of Ownable, 0 = address(0)
    lastTx              \* the last call: function, sender, arguments, outcome, event

\* One bulk operation of the KV adapter.
VARIABLES
    bulk,               \* the call: operation, input array, maxRetries
    run,                \* its position: chunk, current command, retryCount, outcome
    sent                \* the requests sent so far, each with the store's response

serviceVars == <<blob, rootsRow, proofs, pc, root, idx, keys, cmd, res, owner, ovl>>
builderVars == <<whitelistEntries, bpc, thrown, built, stored, checked, answer>>
pagingVars == <<scanTable, pageSize, nextToken, pages, ppc, treesCall>>
routeVars == <<request, response, rpc>>
chainVars == <<merkleRoot, contractOwner, lastTx>>
batchVars == <<bulk, run, sent>>
otherVars == <<pagingVars, routeVars, chainVars, batchVars>>
exceptPaging == <<serviceVars, builderVars, routeVars, chainVars, batchVars>>
exceptRoute == <<serviceVars, builderVars, pagingVars, chainVars, batchVars>>
exceptChain == <<serviceVars, builderVars, pagingVars, routeVars, batchVars>>
exceptBatch == <<serviceVars, builderVars, pagingVars, routeVars, chainVars>>
vars == <<serviceVars, builderVars, otherVars>>

\* ------------------------------------------------------------- helpers
Min(a, b) == IF a < b THEN a ELSE b

\* A slice that stops one item early.
ChunkAtShort(array, i, stride) == SubSeq(array, i + 1, Min(i + stride - 1, Len(array)))

\* chunkArray: the slice array.slice(i, min(i + stride, length)) (0-based i).
ChunkAt(array, i, stride) == SubSeq(array, i + 1, Min(i + stride, Len(array)))

SeqRange(s) == {s[i] : i \in 1..Len(s)}

\* Sort keys in the order a Query returns them (ascending sort key).
SortedSeq(S) ==
    CHOOSE s \in [1..Cardinality(S) -> S] :
        \A i \in 1..Cardinality(S), j \in 1..Cardinality(S) : i < j => s[i] < s[j]

CreatePcs == {"c_get", "c_insert", "c_bulk", "c_comp", "c_complete"}
DeletePcs == {"d_get", "d_flip", "d_query", "d_batch", "d_delroot", "d_comp"}

\* History: an event of request r is noted in every other call that it
\* concerns and that is under way at that moment, that is, has made its
\* first I/O call and has not returned: a successful CreateTree ("creOk")
\* and a transition to DELETING ("flip") in the DeleteTree calls, a
\* successful DeleteTree ("delOk") in the CreateTree calls.
Noted(r, event) ==
    [q \in Reqs |->
        IF /\ q # r
           /\ \/ event \in {"creOk", "flip"} /\ pc[q] \in DeletePcs \ {"d_get"}
              \/ event = "delOk" /\ pc[q] \in CreatePcs \ {"c_get"}
        THEN ovl[q] \cup {event} ELSE ovl[q]]

\* A call ends with a result: its locals go out of scope, and it no longer
\* holds the roots row.
Finish(r, result, event) ==
    /\ pc' = [pc EXCEPT ![r] = "idle"]
    /\ res' = [res EXCEPT ![r] = result]
    /\ root' = [root EXCEPT ![r] = 0]
    /\ idx' = [idx EXCEPT ![r] = 0]
    /\ keys' = [keys EXCEPT ![r] = <<>>]
    /\ cmd' = [cmd EXCEPT ![r] = {}]
    /\ ovl' = [Noted(r, event) EXCEPT ![r] = {}]
    /\ owner' = IF owner = r THEN 0 ELSE owner

\* The call goes on to its next I/O call.
Goto(r, next) == pc' = [pc EXCEPT ![r] = next]

\* Values of the builder's variables before anything is built or asked.
NoTree == [tree |-> <<>>, treeIndex |-> <<>>, root |-> <<>>, records |-> <<>>]
NoRows == [MerkleRoot |-> <<>>, WhitelistStatus |-> "ABSENT", items |-> {}]
NoCheck == [leaf |-> 0, proofOf |-> 0, result |-> None]
NoAnswer == [whitelistAddress |-> [id |-> 0, form |-> "checksum"], error |-> None, item |-> {}]

NoTreesCall == [called |-> FALSE, startingToken |-> 0, MerkleTrees |-> <<>>, LastEvaluatedKey |-> 0]

\* Each part of the state before anything has happened in it.
ServiceIdle ==
    /\ blob = 0
    /\ rootsRow = Absent
    /\ proofs = [a \in Addrs |-> 0]
    /\ pc = [r \in Reqs |-> "idle"]
    /\ root = [r \in Reqs |-> 0]
    /\ idx = [r \in Reqs |-> 0]
    /\ keys = [r \in Reqs |-> <<>>]
    /\ cmd = [r \in Reqs |-> {}]
    /\ res = [r \in Reqs |-> None]
    /\ owner = 0
    /\ ovl = [r \in Reqs |-> {}]

BuilderIdle ==
    /\ whitelistEntries = <<>>
    /\ bpc = "done"
    /\ thrown = [kind |-> None, message |-> ""]
    /\ built = NoTree
    /\ stored = NoRows
    /\ checked = NoCheck
    /\ answer = NoAnswer

PagingIdle ==
    /\ scanTable = {}
    /\ pageSize = 1
    /\ nextToken = 0
    /\ pages = <<>>
    /\ ppc = "idle"
    /\ treesCall = NoTreesCall

NoRequest ==
    [routeKey |-> "", authorizedGroups |-> {}, authorizer |-> FALSE,
     claim |-> [present |-> FALSE, groups |-> {}], bodyIsJson |-> TRUE]
NoResponse ==
    [kind |-> None, statusCode |-> 0, success |-> FALSE, errorCode |-> "", raised |-> None,
     served |-> FALSE]

RouteIdle ==
    /\ request = NoRequest
    /\ response = NoResponse
    /\ rpc = "idle"

NoEvent == [name |-> "", old |-> <<>>, new |-> <<>>]
NoTx ==
    [fn |-> "constructor", sender |-> 0, newRoot |-> <<>>, account |-> 0, amountWei |-> 0,
     proof |-> <<>>, outcome |-> Ok, event |-> NoEvent]

\* No contract is deployed.
ChainIdle ==
    /\ merkleRoot = <<>>
    /\ contractOwner = 0
    /\ lastTx = NoTx

NoBulk == [operation |-> "", input |-> <<>>, maxRetries |-> 0]
NoRun ==
    [status |-> "idle", chunk |-> 0, command |-> <<>>, retryCount |-> 0, result |-> None,
     applied |-> {}]

\* No bulk operation was called.
BatchIdle ==
    /\ bulk = NoBulk
    /\ run = NoRun
    /\ sent = <<>>

OtherIdle == PagingIdle /\ RouteIdle /\ ChainIdle /\ BatchIdle

Init == ServiceIdle /\ BuilderIdle /\ OtherIdle

\* A request slot starts a call: argument validation passes (the name is
\* valid) and the call is about to make its first I/O call.
Start(r, first) ==
    /\ pc[r] = "idle"
    /\ Goto(r, first)
    /\ res' = [res EXCEPT ![r] = None]
    /\ UNCHANGED <<blob, rootsRow, proofs, root, idx, keys, cmd, owner, ovl, builderVars, otherVars>>

\* ------------------------------------------------------------ CreateTree
StartCreate(r) == Start(r, "c_get")

\* whitelistCommandService.createMerkleTree: getObject, parse, validate,
\* build the tree.
CreateGetObject(r) ==
    /\ pc[r] = "c_get"
    /\ \/ Finish(r, S3Error, None)
       \/ /\ blob = 0
          /\ Finish(r, NotFoundS3, None)
       \/ /\ blob # 0
          /\ root' = [root EXCEPT ![r] = blob]
          /\ Goto(r, "c_insert")
          /\ UNCHANGED <<res, idx, keys, cmd, owner, ovl>>
    /\ UNCHANGED <<blob, rootsRow, proofs, builderVars, otherVars>>

\* The error a PartiQL INSERT raises when the row already exists: the data
\* service handles both kinds and passes the name through.
InsertConflictErrors == {CondFailed, DuplicateItem}

\* Mutant: the insert overwrites an existing row (a plain put).
InsertAlways(row) == TRUE

\* executeInsertStatement is insert-only: it writes only when no row exists.
InsertAllowed(row) == row = Absent

\* Mutant: a failed insert is followed by the compensating put.
CreateInsertRootCompensating(r) ==
    /\ pc[r] = "c_insert"
    /\ \/ /\ Goto(r, "c_comp")
          /\ res' = [res EXCEPT ![r] = KvError]
          /\ UNCHANGED <<rootsRow, root, idx, keys, cmd, owner, ovl>>
       \/ /\ ~InsertAllowed(rootsRow)
          /\ Goto(r, "c_comp")
          /\ \E e \in InsertConflictErrors : res' = [res EXCEPT ![r] = e]
          /\ UNCHANGED <<rootsRow, root, idx, keys, cmd, owner, ovl>>
       \/ /\ InsertAllowed(rootsRow)
          /\ rootsRow' = Row(root[r], Creating)
          /\ owner' = r
          /\ Goto(r, "c_bulk")
          /\ UNCHANGED <<res, root, idx, keys, cmd, ovl>>
    /\ UNCHANGED <<blob, proofs, builderVars, otherVars>>

\* whitelistDataService.createMerkleTree, first try block.
CreateInsertRoot(r) ==
    /\ pc[r] = "c_insert"
    /\ \/ /\ Finish(r, KvError, None)
          /\ UNCHANGED rootsRow
       \/ /\ ~InsertAllowed(rootsRow)
          /\ \E e \in InsertConflictErrors : Finish(r, e, None)
          /\ UNCHANGED rootsRow
       \/ /\ InsertAllowed(rootsRow)
          /\ rootsRow' = Row(root[r], Creating)
          /\ owner' = r
          /\ Goto(r, "c_bulk")
          /\ UNCHANGED <<res, root, idx, keys, cmd, ovl>>
    /\ UNCHANGED <<blob, proofs, builderVars, otherVars>>

\* batchInsertExecuteStatement: one BatchExecuteStatement per chunk.  The
\* request may fail as a whole, or each INSERT statement lands or reports an
\* Error on its own (always when the proof row already exists).
CreateBulkInsertChunk(r) ==
    /\ pc[r] = "c_bulk"
    /\ LET records == WhitelistOf(root[r])
           chunk == SeqRange(ChunkAt(records, idx[r], BatchExecuteMaxItems))
           dups == {a \in chunk : proofs[a] # 0}
       IN \/ /\ Goto(r, "c_comp")
             /\ res' = [res EXCEPT ![r] = KvError]
             /\ UNCHANGED <<proofs, idx>>
          \/ \E failing \in SUBSET chunk :
               LET errors == failing \cup dups
                   landed == chunk \ errors
               IN /\ proofs' = [a \in Addrs |->
                                  IF a \in landed THEN root[r] ELSE proofs[a]]
                  /\ IF errors # {}
                     THEN /\ Goto(r, "c_comp")
                          /\ res' = [res EXCEPT ![r] = BatchStatementError]
                          /\ UNCHANGED idx
                     ELSE /\ idx' = [idx EXCEPT ![r] = idx[r] + BatchExecuteMaxItems]
                          /\ Goto(r, IF idx[r] + BatchExecuteMaxItems < Len(records)
                                     THEN "c_bulk" ELSE "c_complete")
                          /\ UNCHANGED res
    /\ UNCHANGED <<blob, rootsRow, root, keys, cmd, owner, ovl, builderVars, otherVars>>

\* ConditionExpression "MerkleRoot = :merkleRoot AND WhitelistStatus = :whitelistStatus".
CondRootAndStatus(row, r, s) == row.root = r /\ row.status = s

\* Mutant: the catch block rethrows without the compensating put.
CreateCompensateNoPut(r) ==
    /\ pc[r] = "c_comp"
    /\ Finish(r, res[r], None)
    /\ UNCHANGED <<blob, rootsRow, proofs, builderVars, otherVars>>

\* Compensating put in the catch block of the bulk insert.  When the put
\* itself throws, its error leaves the catch block instead of the original.
CreateCompensate(r) ==
    /\ pc[r] = "c_comp"
    /\ \/ /\ Finish(r, KvError, None)
          /\ UNCHANGED rootsRow
       \/ /\ ~CondRootAndStatus(rootsRow, root[r], Creating)
          /\ Finish(r, CondFailed, None)
          /\ UNCHANGED rootsRow
       \/ /\ CondRootAndStatus(rootsRow, root[r], Creating)
          /\ rootsRow' = Row(root[r], Failed)
          /\ Finish(r, res[r], None)
    /\ UNCHANGED <<blob, proofs, builderVars, otherVars>>

\* Promotion to COMPLETED, third try block.
CreatePromote(r) ==
    /\ pc[r] = "c_complete"
    /\ \/ /\ Finish(r, KvError, None)
          /\ UNCHANGED rootsRow
       \/ /\ ~CondRootAndStatus(rootsRow, root[r], Creating)
          /\ Finish(r, CondFailed, None)
          /\ UNCHANGED rootsRow
       \/ /\ CondRootAndStatus(rootsRow, root[r], Creating)
          /\ rootsRow' = Row(root[r], Completed)
          /\ Finish(r, Ok, "creOk")
    /\ UNCHANGED <<blob, proofs, builderVars, otherVars>>

\* ---------------------------------------------------------------- Upload
StartUpload(r) == Start(r, "u_put")

\* Mutant: the upload carries no IfNoneMatch precondition.
UploadPutOverwrite(r) ==
    /\ pc[r] = "u_put"
    /\ \/ /\ Finish(r, S3Error, None)
          /\ UNCHANGED blob
       \/ /\ \E c \in Contents : blob' = c
          /\ Finish(r, Ok, None)
    /\ UNCHANGED <<rootsRow, proofs, builderVars, otherVars>>

\* uploadWhitelist: multipartUpload with IfNoneMatch "*".
UploadPut(r) ==
    /\ pc[r] = "u_put"
    /\ \/ /\ Finish(r, S3Error, None)
          /\ UNCHANGED blob
       \/ /\ blob # 0
          /\ Finish(r, Exists, None)
          /\ UNCHANGED blob
       \/ /\ blob = 0
          /\ \E c \in Contents : blob' = c
          /\ Finish(r, Ok, None)
    /\ UNCHANGED <<rootsRow, proofs, builderVars, otherVars>>

\* ------------------------------------------------------------ DeleteTree
DeleteHolding == {"d_query", "d_batch", "d_delroot", "d_comp"}
CreateHolding == {"c_bulk", "c_comp", "c_complete"}

StartDelete(r) == Start(r, "d_get")

\* Mutant: every existing row passes the check that follows the getItem.
DeletableAnyStatus(row) == row # Absent

\* Statuses from which deleteMerkleTree proceeds after its getItem.
Deletable(row) == row # Absent /\ row.status \in {Completed, Failed}

\* whitelistDataService.deleteMerkleTree: getItem of the roots row and the
\* two checks that follow it.
DeleteGetRoot(r) ==
    /\ pc[r] = "d_get"
    /\ \/ Finish(r, KvError, None)
       \/ /\ ~Deletable(rootsRow)
          /\ Finish(r, IF rootsRow = Absent THEN TreeNotFound ELSE TreePending, None)
       \/ /\ Deletable(rootsRow)
          /\ root' = [root EXCEPT ![r] = rootsRow.root]
          /\ Goto(r, "d_flip")
          /\ UNCHANGED <<res, idx, keys, cmd, owner, ovl>>
    /\ UNCHANGED <<blob, rootsRow, proofs, builderVars, otherVars>>

\* Mutants of the condition of the put to DELETING: without the status
\* test, without the root test, without any test.
CondDeletableNoStatus(row, r) == row.root = r
CondDeletableNoRoot(row, r) == row.status \in {Completed, Failed}
CondDeletableAlways(row, r) == TRUE

\* ConditionExpression "MerkleRoot = :merkleRoot AND (WhitelistStatus =
\* :whitelistStatusCompleted OR WhitelistStatus = :whitelistStatusFailed)".
CondDeletable(row, r) == row.root = r /\ row.status \in {Completed, Failed}

\* Conditional put to DELETING.
DeleteFlip(r) ==
    /\ pc[r] = "d_flip"
    /\ \/ /\ Finish(r, KvError, None)
          /\ UNCHANGED rootsRow
       \/ /\ ~CondDeletable(rootsRow, root[r])
          /\ Finish(r, CondFailed, None)
          /\ UNCHANGED rootsRow
       \/ /\ CondDeletable(rootsRow, root[r])
          /\ rootsRow' = Row(root[r], Deleting)
          /\ owner' = r
          /\ Goto(r, "d_query")
          /\ ovl' = Noted(r, "flip")
          /\ UNCHANGED <<res, root, idx, keys, cmd>>
    /\ UNCHANGED <<blob, proofs, builderVars, otherVars>>

\* paginatedQuery of the proof rows of the name, then the start of
\* batchDeleteWrite: the first chunk becomes the current command (no chunk
\* and no request for an empty list).
DeleteQueryProofs(r) ==
    /\ pc[r] = "d_query"
    /\ \/ /\ Goto(r, "d_comp")
          /\ res' = [res EXCEPT ![r] = KvError]
          /\ UNCHANGED <<keys, cmd>>
       \/ LET deleteSortKeys == SortedSeq({a \in Addrs : proofs[a] # 0})
          IN /\ cmd' = [cmd EXCEPT ![r] =
                          SeqRange(ChunkAt(deleteSortKeys, 0, BatchWriteMaxItems))]
             /\ keys' = [keys EXCEPT ![r] =
                          SubSeq(deleteSortKeys, BatchWriteMaxItems + 1, Len(deleteSortKeys))]
             /\ Goto(r, IF Len(deleteSortKeys) = 0 THEN "d_delroot" ELSE "d_batch")
             /\ UNCHANGED res
    /\ UNCHANGED <<blob, rootsRow, proofs, root, idx, owner, ovl, builderVars, otherVars>>

\* A loop that allows one request more.
RetryAgainOnceMore(hasUnprocessedItems, retryCount, maxRetries) ==
    hasUnprocessedItems /\ retryCount <= maxRetries + 1

\* do ... while (hasUnprocessedItems && retryCount <= maxRetries), with
\* retryCount already incremented.
RetryAgain(hasUnprocessedItems, retryCount, maxRetries) ==
    hasUnprocessedItems /\ retryCount <= maxRetries

\* One BatchWrite request of batchDeleteWrite: the KV deletes the items it
\* does not report as unprocessed; the loop resubmits the unprocessed items
\* or leaves the chunk and goes on to the next one.
DeleteBatchSend(r) ==
    /\ pc[r] = "d_batch"
    /\ \/ /\ Goto(r, "d_comp")
          /\ res' = [res EXCEPT ![r] = KvError]
          /\ UNCHANGED <<proofs, idx, keys, cmd>>
       \/ \E unprocessedItems \in SUBSET cmd[r] :
            /\ proofs' = [a \in Addrs |->
                            IF a \in cmd[r] \ unprocessedItems THEN 0 ELSE proofs[a]]
            /\ IF RetryAgain(unprocessedItems # {}, idx[r] + 1, BatchWriteDefaultMaxRetries)
               THEN /\ cmd' = [cmd EXCEPT ![r] = unprocessedItems]
                    /\ idx' = [idx EXCEPT ![r] = idx[r] + 1]
                    /\ UNCHANGED <<keys, pc>>
               ELSE /\ cmd' = [cmd EXCEPT ![r] =
                                 SeqRange(ChunkAt(keys[r], 0, BatchWriteMaxItems))]
                    /\ keys' = [keys EXCEPT ![r] =
                                 SubSeq(keys[r], BatchWriteMaxItems + 1, Len(keys[r]))]
                    /\ idx' = [idx EXCEPT ![r] = 0]
                    /\ Goto(r, IF Len(keys[r]) = 0 THEN "d_delroot" ELSE "d_batch")
            /\ UNCHANGED res
    /\ UNCHANGED <<blob, rootsRow, root, owner, ovl, builderVars, otherVars>>

\* deleteItem of the roots row (unconditional), the last call of the try block.
DeleteRootRow(r) ==
    /\ pc[r] = "d_delroot"
    /\ \/ /\ Goto(r, "d_comp")
          /\ res' = [res EXCEPT ![r] = KvError]
          /\ UNCHANGED <<rootsRow, root, idx, keys, cmd, owner, ovl>>
       \/ /\ rootsRow' = Absent
          /\ Finish(r, Ok, "delOk")
    /\ UNCHANGED <<blob, proofs, builderVars, otherVars>>

\* Mutant: the catch block restores COMPLETED instead of FAILED.
DeleteCompensateToCompleted(r) ==
    /\ pc[r] = "d_comp"
    /\ \/ /\ Finish(r, KvError, None)
          /\ UNCHANGED rootsRow
       \/ /\ ~CondRootAndStatus(rootsRow, root[r], Deleting)
          /\ Finish(r, CondFailed, None)
          /\ UNCHANGED rootsRow
       \/ /\ CondRootAndStatus(rootsRow, root[r], Deleting)
          /\ rootsRow' = Row(root[r], Completed)
          /\ Finish(r, res[r], None)
    /\ UNCHANGED <<blob, proofs, builderVars, otherVars>>

\* Compensating put back to FAILED in the catch block of step 3.
DeleteCompensate(r) ==
    /\ pc[r] = "d_comp"
    /\ \/ /\ Finish(r, KvError, None)
          /\ UNCHANGED rootsRow
       \/ /\ ~CondRootAndStatus(rootsRow, root[r], Deleting)
          /\ Finish(r, CondFailed, None)
          /\ UNCHANGED rootsRow
       \/ /\ CondRootAndStatus(rootsRow, root[r], Deleting)
          /\ rootsRow' = Row(root[r], Failed)
          /\ Finish(r, res[r], None)
    /\ UNCHANGED <<blob, proofs, builderVars, otherVars>>

\* ------------------------------------------------------- DeleteWhitelist
StartDeleteWhitelist(r) == Start(r, "w_get")

\* Mutant: only a COMPLETED tree protects the CSV.
TreeExistsOnlyCompleted(row) == row # Absent /\ row.status = Completed

\* deleteWhitelist refuses when getMerkleRoot returns a record.
TreeExists(row) == row # Absent

\* whitelistCommandService.deleteWhitelist: getMerkleRoot and the check.
DeleteWhitelistGetRoot(r) ==
    /\ pc[r] = "w_get"
    /\ \/ Finish(r, KvError, None)
       \/ /\ TreeExists(rootsRow)
          /\ Finish(r, TreeExistsError, None)
       \/ /\ ~TreeExists(rootsRow)
          /\ Goto(r, "w_del")
          /\ UNCHANGED <<res, root, idx, keys, cmd, owner, ovl>>
    /\ UNCHANGED <<blob, rootsRow, proofs, builderVars, otherVars>>

\* s3Service.deleteObject of <name>.csv.
DeleteWhitelistObject(r) ==
    /\ pc[r] = "w_del"
    /\ \/ /\ Finish(r, S3Error, None)
          /\ UNCHANGED blob
       \/ /\ blob' = 0
          /\ Finish(r, Ok, None)
    /\ UNCHANGED <<rootsRow, proofs, builderVars, otherVars>>

\* -------------------------------------------------------- getMerkleProof
StartGetProof(r) == Start(r, "p_root")

\* Mutant: any existing row is readable.
ReadableAnyStatus(row) == row # Absent

\* The status check made after each read of the roots row.
Readable(row) == row # Absent /\ row.status = Completed

\* whitelistQueryService.getMerkleProof: getMerkleRoot and the two checks.
GetProofReadRoot(r) ==
    /\ pc[r] = "p_root"
    /\ \/ Finish(r, KvError, None)
       \/ /\ ~Readable(rootsRow)
          /\ Finish(r, IF rootsRow = Absent THEN TreeNotFound ELSE TreeNotReady, None)
       \/ /\ Readable(rootsRow)
          /\ Goto(r, "p_root2")
          /\ UNCHANGED <<res, root, idx, keys, cmd, owner, ovl>>
    /\ UNCHANGED <<blob, rootsRow, proofs, builderVars, otherVars>>

\* whitelistDataService.getMerkleProof: its own getItem of the roots row
\* and the same two checks.
GetProofReadRootAgain(r) ==
    /\ pc[r] = "p_root2"
    /\ \/ Finish(r, KvError, None)
       \/ /\ ~Readable(rootsRow)
          /\ Finish(r, IF rootsRow = Absent THEN TreeNotFound ELSE TreeNotCompleted, None)
       \/ /\ Readable(rootsRow)
          /\ Goto(r, "p_item")
          /\ UNCHANGED <<res, root, idx, keys, cmd, owner, ovl>>
    /\ UNCHANGED <<blob, rootsRow, proofs, builderVars, otherVars>>

\* getItem of the proofs table for (name, address): the record or undefined.
GetProofReadItem(r) ==
    /\ pc[r] = "p_item"
    /\ \/ Finish(r, KvError, None)
       \/ \E a \in Addrs :
            Finish(r, IF proofs[a] # 0 THEN "proofRecord" ELSE "undefined", None)
    /\ UNCHANGED <<blob, rootsRow, proofs, builderVars, otherVars>>

Next ==
    \E r \in Reqs :
        \/ StartCreate(r)
        \/ CreateGetObject(r)
        \/ CreateInsertRoot(r)
        \/ CreateBulkInsertChunk(r)
        \/ CreateCompensate(r)
        \/ CreatePromote(r)
        \/ StartUpload(r)
        \/ UploadPut(r)
        \/ StartDelete(r)
        \/ DeleteGetRoot(r)
        \/ DeleteFlip(r)
        \/ DeleteQueryProofs(r)
        \/ DeleteBatchSend(r)
        \/ DeleteRootRow(r)
        \/ DeleteCompensate(r)
        \/ StartDeleteWhitelist(r)
        \/ DeleteWhitelistGetRoot(r)
        \/ DeleteWhitelistObject(r)
        \/ StartGetProof(r)
        \/ GetProofReadRoot(r)
        \/ GetProofReadRootAgain(r)
        \/ GetProofReadItem(r)

Spec == Init /\ [][Next]_vars

\* ======================================================================
\* Merkle builder, on-chain verifier and proof lookup
\* ======================================================================

\* ---------------------------------------------------------------- bounds
\* Number of distinct non-zero addresses a CSV row can spell.
NAddrIds == 3
\* Largest number of data rows of a CSV.
MaxRows == 3

\* ------------------------------------------------------ program constants
ValidWhitelistAmountMaxLen == 30
ValidWhitelistAmountMinLen == 1
ValidateWhitelistEntriesMaxCount == 100000

\* An address string is the 20-byte value it spells (id; 0 is the zero
\* address) and the way it is spelled: EIP-55 checksummed, all-lowercase or
\* all-uppercase hex digits, mixed case that is not the checksum, "0X"
\* prefix, or not 40 hex digits at all.  Different forms are different strings.
ZeroAddress == [id |-> 0, form |-> "checksum"]
AddressStrings ==
    {[id |-> i, form |-> f] : i \in 1..NAddrIds, f \in {"checksum", "lower", "upper"}}
        \cup {ZeroAddress, [id |-> 1, form |-> "badmix"],
              [id |-> 1, form |-> "0X"], [id |-> 1, form |-> "malformed"]}

\* Amount strings, and what parseEther makes of them (in units of a tenth
\* of an ether): a wei value, or an exception.
AmountStrings == {"1", "-1", "x"}
ParseEtherThrows(amount) == amount \notin {"1", "-1"}
parseEther(amount) == IF amount = "-1" THEN 0 - 10 ELSE 10

\* Rows that csv-parse can deliver (columns WhitelistAddress, WhitelistAmount).
WhitelistEntry ==
    [WhitelistAddress : AddressStrings, WhitelistAmount : AmountStrings]

\* length = ValidEvmAddressLen and ValidEvmAddressRegex /^(0x|0X)[0-9A-Fa-f]{40}$/.
ValidEvmAddress(address) == address.form # "malformed"

\* ethers getAddress: accepts /^(0x)?[0-9a-fA-F]{40}$/ (so not the "0X"
\* prefix), rejects mixed case that is not the checksum, and returns the
\* checksummed spelling.
GetAddressThrows(address) == address.form \in {"malformed", "0X", "badmix"}
getAddress(address) == [id |-> address.id, form |-> "checksum"]

\* Error kinds of the builder.
GateError(message) == [kind |-> "Validation", message |-> message]
LibraryError(message) == [kind |-> "Error", message |-> message]
NoError == [kind |-> None, message |-> ""]

\* The callback of whitelistEntries.every: the message of the first check a
\* row fails, or "" when it passes.
RowError(element) ==
    IF ~ValidEvmAddress(element.WhitelistAddress) THEN "Invalid whitelist address"
    ELSE IF element.WhitelistAddress = ZeroAddress THEN "zero whitelist address"
    ELSE IF GetAddressThrows(element.WhitelistAddress) THEN "Whitelist address invalid"
    ELSE IF \/ Len(element.WhitelistAmount) < ValidWhitelistAmountMinLen
            \/ Len(element.WhitelistAmount) > ValidWhitelistAmountMaxLen
         THEN "Invalid whitelist amount length"
    ELSE IF ParseEtherThrows(element.WhitelistAmount) THEN "Whitelist amount value invalid"
    ELSE IF parseEther(element.WhitelistAmount) < 0 THEN "Invalid whitelist amount value"
    ELSE ""

\* every stops at the first row that fails.
FirstRowError(entries) ==
    IF \A i \in 1..Len(entries) : RowError(entries[i]) = ""
    THEN ""
    ELSE RowError(entries[CHOOSE i \in 1..Len(entries) :
                            /\ RowError(entries[i]) # ""
                            /\ \A j \in 1..(i - 1) : RowError(entries[j]) = ""])

\* Mutant: the addresses are compared as they are spelled.
hasDuplicateAddressesAsSpelled(array) ==
    Cardinality({array[i].WhitelistAddress : i \in 1..Len(array)}) # Len(array)

\* new Set(array.map(getAddress)).size !== array.length
hasDuplicateAddresses(array) ==
    Cardinality({getAddress(array[i].WhitelistAddress) : i \in 1..Len(array)}) # Len(array)

\* ------------------------------------------------------------- hashing
\* Byte strings are sequences of words: a word is a field value (an address
\* id or an amount, >= 0) or one of the marks below.  keccak256 is modelled
\* as a collision-free function: the digest of s is s between two marks, so
\* digests are told apart from each other and from their concatenations.
\* Digests are ordered as byte strings, that is, lexicographically.
OpenMark == 0 - 1
CloseMark == 0 - 2
CommaMark == 0 - 3
keccak256(bytes) == <<OpenMark>> \o bytes \o <<CloseMark>>

\* abi.encode(address, uint256): the address enters by value, whatever its
\* spelling.
AbiEncode(address, amountWei) == <<address.id, amountWei>>

\* compareBytes(a, b) < 0
Less(a, b) ==
    \E k \in 1..(Min(Len(a), Len(b)) + 1) :
        /\ \A i \in 1..(k - 1) : a[i] = b[i]
        /\ k <= Len(b)
        /\ (k <= Len(a) => a[k] < b[k])

\* Mutant: the leaf is hashed once.
standardLeafHashSingle(value) == keccak256(AbiEncode(value[1], value[2]))

\* standardLeafHash: keccak256(keccak256(abi.encode(types, value)))
standardLeafHash(value) == keccak256(keccak256(AbiEncode(value[1], value[2])))

\* standardNodeHash: keccak256(concat([a, b].sort(compareBytes)))
standardNodeHash(a, b) == IF Less(b, a) THEN keccak256(b \o a) ELSE keccak256(a \o b)

\* A sibling that is always the node to the left.
siblingIndexLeft(i) == i - 1

\* Positions in the array of the tree (0-based, as in the library).
leftChildIndex(i) == 2 * i + 1
rightChildIndex(i) == 2 * i + 2
parentIndex(i) == (i - 1) \div 2
siblingIndex(i) == IF i % 2 = 1 THEN i + 1 ELSE i - 1

\* makeMerkleTree: an array of 2n-1 nodes, the leaves at its end in reverse
\* order, every other node the hash of its two children.  NodeAt gives the
\* node at 0-based position i.
RECURSIVE NodeAt(_, _)
NodeAt(leaves, i) ==
    IF i >= Len(leaves) - 1
    THEN leaves[2 * Len(leaves) - 1 - i]
    ELSE standardNodeHash(NodeAt(leaves, leftChildIndex(i)), NodeAt(leaves, rightChildIndex(i)))
makeMerkleTree(leaves) == [k \in 1..(2 * Len(leaves) - 1) |-> NodeAt(leaves, k - 1)]

\* hashedValues.sort: the positions of the values in ascending order of
\* their leaf hashes.
SortedByHash(hashes) ==
    CHOOSE order \in [1..Len(hashes) -> 1..Len(hashes)] :
        /\ \A i \in 1..Len(hashes), j \in 1..Len(hashes) : i # j => order[i] # order[j]
        /\ \A i \in 1..(Len(hashes) - 1) : ~Less(hashes[order[i + 1]], hashes[order[i]])

\* Mutant: the proof goes on to include the root.
RECURSIVE getProofWithRoot(_, _)
getProofWithRoot(tree, index) ==
    IF index = 0
    THEN <<tree[1]>>
    ELSE <<tree[siblingIndex(index) + 1]>> \o getProofWithRoot(tree, parentIndex(index))

\* getProof: the siblings on the way from the leaf at 0-based position
\* index up to the root.
RECURSIVE getProof(_, _)
getProof(tree, index) ==
    IF index = 0
    THEN <<>>
    ELSE <<tree[siblingIndex(index) + 1]>> \o getProof(tree, parentIndex(index))

\* Array.prototype.toString of the proof: its elements joined by commas.
RECURSIVE proofToString(_)
proofToString(array) ==
    IF Len(array) = 0 THEN <<>>
    ELSE IF Len(array) = 1 THEN array[1]
    ELSE array[1] \o <<CommaMark>> \o proofToString(Tail(array))

\* StandardMerkleTree.of(values, ["address", "uint256"]): the leaves are
\* hashed and sorted, the tree is made, and each value learns the position
\* of its leaf.
StandardMerkleTreeOf(values) ==
    LET n == Len(values)
        hashes == [i \in 1..n |-> standardLeafHash(values[i])]
        order == SortedByHash(hashes)
        tree == makeMerkleTree([k \in 1..n |-> hashes[order[k]]])
    IN [tree |-> tree,
        treeIndex |-> [valueIndex \in 1..n |->
                         Len(tree) - ((CHOOSE k \in 1..n : order[k] = valueIndex) - 1) - 1]]

\* Rejection by the input gate: a ValidationError ends the call.
Reject(error) ==
    /\ thrown' = error
    /\ bpc' = "done"
    /\ UNCHANGED built

\* whitelistCommandService.createMerkleTree from the parsed rows to the call
\* of the data service: the input gate, the tree, the proof records.
BuildMerkleTree ==
    /\ bpc = "parsed"
    /\ LET rowError == FirstRowError(whitelistEntries)
           values == [i \in 1..Len(whitelistEntries) |->
                        <<getAddress(whitelistEntries[i].WhitelistAddress),
                          parseEther(whitelistEntries[i].WhitelistAmount)>>]
       IN IF Len(whitelistEntries) > ValidateWhitelistEntriesMaxCount
          THEN Reject(GateError("Number of whitelist entries exceed"))
          ELSE IF rowError # ""
          THEN Reject(GateError(rowError))
          ELSE IF hasDuplicateAddresses(whitelistEntries)
          THEN Reject(GateError("Duplicate whitelist address"))
          ELSE IF Len(values) = 0
          THEN Reject(LibraryError("Expected non-zero number of leaves"))
          ELSE LET made == StandardMerkleTreeOf(values)
               IN /\ built' = [tree |-> made.tree,
                               treeIndex |-> made.treeIndex,
                               root |-> made.tree[1],
                               records |-> [i \in 1..Len(values) |->
                                   [MerkleProof |-> proofToString(getProof(made.tree, made.treeIndex[i])),
                                    WhitelistAddress |-> values[i][1],
                                    WhitelistAmountWei |-> values[i][2]]]]
                  /\ bpc' = "built"
                  /\ UNCHANGED thrown
    /\ UNCHANGED <<whitelistEntries, stored, checked, answer, serviceVars, otherVars>>

\* whitelistDataService.createMerkleTree with every KV call succeeding: the
\* roots row is inserted, the proof rows are inserted, the row is promoted.
StoreMerkleTree ==
    /\ bpc = "built"
    /\ stored' = [MerkleRoot |-> built.root,
                  WhitelistStatus |-> Completed,
                  items |-> {built.records[i] : i \in 1..Len(built.records)}]
    /\ bpc' = "stored"
    /\ UNCHANGED <<whitelistEntries, thrown, built, checked, answer, serviceVars, otherVars>>

\* Hashes.commutativeKeccak256 of the verifier: a < b ? keccak(a, b) : keccak(b, a).
commutativeKeccak256(a, b) == IF Less(a, b) THEN keccak256(a \o b) ELSE keccak256(b \o a)

\* MerkleProof.processProof: the leaf folded with the proof's elements in order.
RECURSIVE processProof(_, _)
processProof(proof, leaf) ==
    IF Len(proof) = 0
    THEN leaf
    ELSE processProof(Tail(proof), commutativeKeccak256(leaf, proof[1]))

\* Mutant: the leaf is made of the address alone.
isWhitelistedForAnyAmount(contractRoot, whitelistAddress, whitelistAmountWei, proof) ==
    IF whitelistAddress.id = 0 THEN "MTWL: zero address"
    ELSE IF processProof(proof, keccak256(keccak256(<<whitelistAddress.id>>))) = contractRoot
         THEN "true"
         ELSE "MTWL: invalid proof"

\* MerkleTreeWhitelist.isWhitelistedFor against the contract's merkleRoot.
isWhitelistedFor(contractRoot, whitelistAddress, whitelistAmountWei, proof) ==
    IF whitelistAddress.id = 0 THEN "MTWL: zero address"
    ELSE IF processProof(proof,
                keccak256(keccak256(AbiEncode(whitelistAddress, whitelistAmountWei)))) = contractRoot
         THEN "true"
         ELSE "MTWL: invalid proof"

\* A caller asks the contract, which holds the stored root, about the
\* address and amount of record i with the proof emitted for record j.
CallIsWhitelistedFor(i, j) ==
    /\ bpc = "stored"
    /\ i <= Len(built.records)
    /\ j <= Len(built.records)
    /\ checked' = [leaf |-> i,
                   proofOf |-> j,
                   result |-> isWhitelistedFor(stored.MerkleRoot,
                                  built.records[i].WhitelistAddress,
                                  built.records[i].WhitelistAmountWei,
                                  getProof(built.tree, built.treeIndex[j]))]
    /\ UNCHANGED <<whitelistEntries, bpc, thrown, built, stored, answer, serviceVars, otherVars>>

\* Mutant: the proofs table is asked for the address as the caller spelled it.
NormalizedAddressAsSpelled(whitelistAddress) == whitelistAddress

\* normalizedAddress = getAddress(whitelistAddress)
NormalizedAddress(whitelistAddress) == getAddress(whitelistAddress)

\* whitelistQueryService.getMerkleProof and whitelistDataService.getMerkleProof
\* with every KV call succeeding: the address checks, the status check, the
\* getItem of the proofs table by (name, address).
QueryMerkleProof(whitelistAddress) ==
    IF ~ValidEvmAddress(whitelistAddress) THEN [error |-> "Invalid whitelist address", item |-> {}]
    ELSE IF whitelistAddress = ZeroAddress THEN [error |-> "zero whitelist address", item |-> {}]
    ELSE IF GetAddressThrows(whitelistAddress) THEN [error |-> "Whitelist address invalid", item |-> {}]
    ELSE IF stored.WhitelistStatus # Completed THEN [error |-> "Merkle tree not ready", item |-> {}]
    ELSE [error |-> "",
          item |-> {record \in stored.items :
                      record.WhitelistAddress = NormalizedAddress(whitelistAddress)}]

CallGetMerkleProof(whitelistAddress) ==
    /\ bpc = "stored"
    /\ answer' = [whitelistAddress |-> whitelistAddress,
                  error |-> QueryMerkleProof(whitelistAddress).error,
                  item |-> QueryMerkleProof(whitelistAddress).item]
    /\ UNCHANGED <<whitelistEntries, bpc, thrown, built, stored, checked, serviceVars, otherVars>>

BuilderInit ==
    /\ ServiceIdle
    /\ OtherIdle
    /\ whitelistEntries \in UNION {[1..n -> WhitelistEntry] : n \in 0..MaxRows}
    /\ bpc = "parsed"
    /\ thrown = NoError
    /\ built = NoTree
    /\ stored = NoRows
    /\ checked = NoCheck
    /\ answer = NoAnswer

BuilderNext ==
    \/ BuildMerkleTree
    \/ StoreMerkleTree
    \/ \E i \in 1..MaxRows, j \in 1..MaxRows : CallIsWhitelistedFor(i, j)
    \/ \E whitelistAddress \in AddressStrings : CallGetMerkleProof(whitelistAddress)

BuilderSpec == BuilderInit /\ [][BuilderNext]_vars

\* ----------------------------------------------------------------------
\* The Merkle builder on whitelists of up to five valid rows (specification
\* TreeSpec): the rows of the CSV in any order, every address once.
\* ----------------------------------------------------------------------

\* Largest number of rows of a whitelist whose tree is built.
MaxLeaves == 5

\* Row of address id, spelled with its checksum, with the amount "1".
ValidRow(id) ==
    [WhitelistAddress |-> [id |-> id, form |-> "checksum"], WhitelistAmount |-> "1"]

\* The whitelists: no address twice, the rows in any order.
ValidWhitelists ==
    UNION {{[i \in 1..n |-> ValidRow(ids[i])] :
              ids \in {f \in [1..n -> 1..MaxLeaves] :
                         \A i \in 1..n, j \in 1..n : i # j => f[i] # f[j]}} :
           n \in 1..MaxLeaves}

TreeInit ==
    /\ ServiceIdle
    /\ OtherIdle
    /\ whitelistEntries \in ValidWhitelists
    /\ bpc = "parsed"
    /\ thrown = NoError
    /\ built = NoTree
    /\ stored = NoRows
    /\ checked = NoCheck
    /\ answer = NoAnswer

TreeNext ==
    \/ BuildMerkleTree
    \/ StoreMerkleTree
    \/ \E i \in 1..MaxLeaves : CallIsWhitelistedFor(i, i)

TreeSpec == TreeInit /\ [][TreeNext]_vars

\* ----------------------------------------------------------------------
\* From the upload of a CSV to the tree built from it (specification
\* IntakeSpec): one name, no blob stored at first, the rows of the uploaded
\* content in whitelistEntries.  blob # 0 says that <name>.csv holds it.
\* ----------------------------------------------------------------------

StorageFailure(name) == [kind |-> "StorageError", message |-> name]

\* whitelistCommandService.uploadWhitelist: the name and the length of the
\* base64 content are validated (a CSV with its header line is longer than
\* the minimum), then the content goes to multipartUpload as it came.
UploadWhitelistContent ==
    /\ bpc = "received"
    /\ \/ /\ thrown' = StorageFailure(S3Error)
          /\ bpc' = "done"
          /\ UNCHANGED blob
       \/ /\ blob' = 1
          /\ bpc' = "parsed"
          /\ UNCHANGED thrown
    /\ UNCHANGED <<whitelistEntries, built, stored, checked, answer, otherVars,
                   rootsRow, proofs, pc, root, idx, keys, cmd, res, owner, ovl>>

IntakeInit ==
    /\ ServiceIdle
    /\ OtherIdle
    /\ whitelistEntries \in UNION {[1..n -> WhitelistEntry] : n \in 0..MaxRows}
    /\ bpc = "received"
    /\ thrown = NoError
    /\ built = NoTree
    /\ stored = NoRows
    /\ checked = NoCheck
    /\ answer = NoAnswer

IntakeNext ==
    \/ UploadWhitelistContent
    \/ BuildMerkleTree
    \/ StoreMerkleTree

IntakeSpec == IntakeInit /\ [][IntakeNext]_vars

\* ----------------------------------------------------------------------
\* getMerkleProofs while DeleteTree calls run on the same name
\* (specification ProofsSpec), from the state a successful CreateTree
\* leaves.  In a getMerkleProofs call root is the MerkleRoot of the row it
\* read, idx the sort key its last page ended with, and cmd the records read
\* so far and, after the call, returned.
\* ----------------------------------------------------------------------

\* Result of a getMerkleProofs call that returned its array of records.
ProofRecords == "proofRecords"

StartGetProofs(r) == Start(r, "ps_root")

\* whitelistDataService.getMerkleProofs: getItem of the roots row and the
\* two checks.
GetProofsReadRoot(r) ==
    /\ pc[r] = "ps_root"
    /\ \/ Finish(r, KvError, None)
       \/ /\ ~Readable(rootsRow)
          /\ Finish(r, IF rootsRow = Absent THEN TreeNotFound ELSE TreeNotCompleted, None)
       \/ /\ Readable(rootsRow)
          /\ root' = [root EXCEPT ![r] = rootsRow.root]
          /\ cmd' = [cmd EXCEPT ![r] = {}]
          /\ idx' = [idx EXCEPT ![r] = 0]
          /\ Goto(r, "ps_query")
          /\ UNCHANGED <<res, keys, owner, ovl>>
    /\ UNCHANGED <<blob, rootsRow, proofs, builderVars, otherVars>>

\* One Query request of paginatedQuery (consistent read): the rows of the
\* name after the last evaluated key, in sort-key order, up to where the
\* store ends the page; a page that reaches the end of the rows carries no
\* LastEvaluatedKey and the records read are returned.
GetProofsQueryPage(r) ==
    /\ pc[r] = "ps_query"
    /\ \/ Finish(r, KvError, None)
       \/ LET rest == SortedSeq({a \in Addrs : proofs[a] # 0 /\ a > idx[r]})
          IN \E k \in 0..Len(rest) :
               /\ k = 0 => Len(rest) = 0
               /\ cmd' = [cmd EXCEPT ![r] = cmd[r] \cup SeqRange(SubSeq(rest, 1, k))]
               /\ IF k = Len(rest)
                  THEN /\ pc' = [pc EXCEPT ![r] = "idle"]
                       /\ res' = [res EXCEPT ![r] = ProofRecords]
                       /\ idx' = [idx EXCEPT ![r] = 0]
                  ELSE /\ idx' = [idx EXCEPT ![r] = rest[k]]
                       /\ UNCHANGED <<pc, res>>
               /\ UNCHANGED <<root, keys, owner, ovl>>
    /\ UNCHANGED <<blob, rootsRow, proofs, builderVars, otherVars>>

\* The tree of an uploaded whitelist was created: the row is COMPLETED and
\* every proof row of the tree is stored.
ProofsInit ==
    /\ BuilderIdle
    /\ OtherIdle
    /\ blob \in Contents
    /\ rootsRow = Row(blob, Completed)
    /\ proofs = [a \in Addrs |-> IF a \in SeqRange(WhitelistOf(blob)) THEN blob ELSE 0]
    /\ pc = [r \in Reqs |-> "idle"]
    /\ root = [r \in Reqs |-> 0]
    /\ idx = [r \in Reqs |-> 0]
    /\ keys = [r \in Reqs |-> <<>>]
    /\ cmd = [r \in Reqs |-> {}]
    /\ res = [r \in Reqs |-> None]
    /\ owner = 0
    /\ ovl = [r \in Reqs |-> {}]

ProofsNext ==
    \E r \in Reqs :
        \/ StartDelete(r)
        \/ DeleteGetRoot(r)
        \/ DeleteFlip(r)
        \/ DeleteQueryProofs(r)
        \/ DeleteBatchSend(r)
        \/ DeleteRootRow(r)
        \/ DeleteCompensate(r)
        \/ StartGetProofs(r)
        \/ GetProofsReadRoot(r)
        \/ GetProofsQueryPage(r)

ProofsSpec == ProofsInit /\ [][ProofsNext]_vars

\* ======================================================================
\* Paging through the roots table
\* ======================================================================

\* ---------------------------------------------------------------- bounds
\* Number of whitelist names that can have a roots row.
NNames == 3
\* Number of distinct Merkle roots a roots row can hold.
NRoots == 2
\* Largest pageSize a caller asks for.
MaxPageSize == 3

\* ------------------------------------------------------ program constants
ValidPageSizeMax == 1000
ValidPageSizeMin == 1

\* Whitelist names are the partition keys of the roots table; a Scan
\* returns rows in the table's key order, which the numbering stands for.
Names == 1..NNames

\* MerkleRootItem.
MerkleRootItem ==
    [WhitelistName : Names, MerkleRoot : 1..NRoots, WhitelistStatus : {Creating, Completed, Failed}]

\* Roots tables that hold a row for each of the given names and no other row.
RootsTablesOf(names) ==
    {{[WhitelistName |-> n, MerkleRoot |-> f[n][1], WhitelistStatus |-> f[n][2]] : n \in names} :
        f \in [names -> (1..NRoots) \X {Creating, Completed, Failed}]}

\* Roots tables: at most one row for a name.
RootsTables == UNION {RootsTablesOf(names) : names \in SUBSET Names}

\* Mutant: the scan resumes at the start key instead of after it.
RowsFrom(table, exclusiveStartKey) ==
    {x \in table : x.WhitelistName >= exclusiveStartKey}

\* The rows a Scan with ExclusiveStartKey still has to evaluate (0: no key).
RowsAfter(table, exclusiveStartKey) ==
    {x \in table : x.WhitelistName > exclusiveStartKey}

\* Rows in scan order.
InScanOrder(rows) ==
    CHOOSE s \in [1..Cardinality(rows) -> rows] :
        \A i, j \in 1..Cardinality(rows) : i < j => s[i].WhitelistName < s[j].WhitelistName

\* dynamoDbService.scan: ScanCommand with ConsistentRead, ExclusiveStartKey
\* and Limit.  The store evaluates at most Limit rows; it returns the key of
\* the last row evaluated when rows remain, none when it ran out of rows
\* before reaching Limit, and either when the Limit-th row evaluated was the
\* last row of the table.  The result is the set of possible responses.
scan(table, limit, exclusiveStartKey) ==
    LET rest == InScanOrder(RowsAfter(table, exclusiveStartKey))
        items == SubSeq(rest, 1, Min(limit, Len(rest)))
        last == IF Len(items) = 0 THEN 0 ELSE items[Len(items)].WhitelistName
    IN {[Items |-> items, LastEvaluatedKey |-> k] :
            k \in IF Len(rest) > limit THEN {last}
                  ELSE IF Len(rest) = limit /\ limit > 0 THEN {last, 0}
                  ELSE {0}}

\* The page-size checks of the query service, the data service and the
\* adapter (the same bounds in all three).
PageSizeValid(size) == size >= ValidPageSizeMin /\ size <= ValidPageSizeMax

\* whitelistDataService.getMerkleRoots behind whitelistQueryService.getMerkleRoots:
\* the possible results for a valid pageSize.
getMerkleRoots(table, size, startingToken) ==
    {[MerkleRoots |-> output.Items, LastEvaluatedKey |-> output.LastEvaluatedKey] :
        output \in scan(table, size, startingToken)}

\* Mutant: the rows are returned as they are scanned.
getMerkleTreesUnprojected(table, size, startingToken) ==
    {[MerkleTrees |-> records.MerkleRoots, LastEvaluatedKey |-> records.LastEvaluatedKey] :
        records \in getMerkleRoots(table, size, startingToken)}

\* whitelistQueryService.getMerkleTrees: each row projected to its name.
getMerkleTrees(table, size, startingToken) ==
    {[MerkleTrees |-> [i \in 1..Len(records.MerkleRoots) |->
                         [WhitelistName |-> records.MerkleRoots[i].WhitelistName]],
      LastEvaluatedKey |-> records.LastEvaluatedKey] :
        records \in getMerkleRoots(table, size, startingToken)}

\* A client pages: one getMerkleRoots request with the token of the last page.
GetMerkleRootsPage ==
    /\ ppc = "paging"
    /\ IF ~PageSizeValid(pageSize)
       THEN /\ ppc' = "invalid"
            /\ UNCHANGED <<pages, nextToken>>
       ELSE \E records \in getMerkleRoots(scanTable, pageSize, nextToken) :
               /\ pages' = Append(pages, records.MerkleRoots)
               /\ nextToken' = records.LastEvaluatedKey
               /\ ppc' = IF records.LastEvaluatedKey = 0 THEN "end" ELSE "paging"
    /\ UNCHANGED <<scanTable, pageSize, treesCall, exceptPaging>>

\* A getMerkleTrees request with any starting token.
CallGetMerkleTrees(startingToken) ==
    /\ ppc # "idle"
    /\ PageSizeValid(pageSize)
    /\ \E records \in getMerkleTrees(scanTable, pageSize, startingToken) :
          treesCall' = [called |-> TRUE,
                        startingToken |-> startingToken,
                        MerkleTrees |-> records.MerkleTrees,
                        LastEvaluatedKey |-> records.LastEvaluatedKey]
    /\ UNCHANGED <<scanTable, pageSize, nextToken, pages, ppc, exceptPaging>>

PagingInit ==
    /\ ServiceIdle
    /\ BuilderIdle
    /\ scanTable \in RootsTables
    /\ pageSize \in 0..MaxPageSize
    /\ nextToken = 0
    /\ pages = <<>>
    /\ ppc = "paging"
    /\ treesCall = NoTreesCall
    /\ RouteIdle
    /\ ChainIdle
    /\ BatchIdle

PagingNext ==
    \/ GetMerkleRootsPage
    \/ \E startingToken \in 0..NNames : CallGetMerkleTrees(startingToken)

PagingSpec == PagingInit /\ [][PagingNext]_vars

\* ======================================================================
\* Route boundary: lambdaHandler
\* ======================================================================

\* RouteKey enum, and a route key that is none of them.
CreateMerkleTreeRoute == "POST /CreateMerkleTree"
DeleteMerkleTreeRoute == "DELETE /MerkleTree"
DeleteWhitelistRoute == "DELETE /Whitelist"
GetMerkleProofRoute == "GET /MerkleProof"
GetMerkleProofsRoute == "GET /MerkleProofs"
GetMerkleRootRoute == "GET /MerkleRoot"
GetMerkleRootsRoute == "GET /MerkleRoots"
GetMerkleTreesRoute == "GET /MerkleTrees"
UploadWhitelistRoute == "POST /UploadWhitelist"
RouteKey ==
    {CreateMerkleTreeRoute, DeleteMerkleTreeRoute, DeleteWhitelistRoute, GetMerkleProofRoute,
     GetMerkleProofsRoute, GetMerkleRootRoute, GetMerkleRootsRoute, GetMerkleTreesRoute,
     UploadWhitelistRoute}
UnknownRoute == "GET /Unknown"

\* Routes whose entry of AuthorizedGroups is the literal [].
OpenRoutes == {GetMerkleProofRoute, GetMerkleTreesRoute}

\* Group names of the configuration and of the callers' tokens.
GroupNames == {"Admin", "User"}

\* HTTP status codes and error codes.
HTTP_STATUS_OK == 200
HTTP_STATUS_FORBIDDEN == 403
UnauthorizedAccess == "UnauthorizedAccess"
ValidationErrorCode == "ValidationError"
ResourceNotFound == "ResourceNotFound"

\* What serving a request can end with: the service returns ("ok"; for
\* GET /MerkleProof also "notFound"), or throws a ValiError (request
\* schema), a ValidationError, a StorageError (object store adapter error),
\* a NoSqlError (KV adapter error wrapped by the data service) or the plain
\* Error of batchInsertExecuteStatement for a statement that reports an error.
StoreRoutes == {CreateMerkleTreeRoute, DeleteWhitelistRoute, UploadWhitelistRoute}
KvRoutes == RouteKey \ {UploadWhitelistRoute}
ServiceOutcomes(routeKey) ==
    {Ok, "ValiError", "ValidationError"}
        \cup (IF routeKey \in StoreRoutes THEN {"StorageError"} ELSE {})
        \cup (IF routeKey \in KvRoutes THEN {"NoSqlError"} ELSE {})
        \cup (IF routeKey = CreateMerkleTreeRoute THEN {BatchStatementError} ELSE {})
        \cup (IF routeKey = GetMerkleProofRoute THEN {"notFound"} ELSE {})

\* Requests as the handler receives them: the route key, the configured
\* group list of that route, whether the event carries an authorizer
\* context, the cognito:groups claim of the token (absent, or a list), and
\* whether the body is JSON text.
NoClaim == [present |-> FALSE, groups |-> {}]
Requests ==
    {[routeKey |-> k, authorizedGroups |-> g, authorizer |-> a, claim |-> c, bodyIsJson |-> j] :
        k \in RouteKey \cup {UnknownRoute},
        g \in SUBSET GroupNames,
        a \in BOOLEAN,
        c \in {NoClaim} \cup {[present |-> TRUE, groups |-> m] : m \in SUBSET GroupNames},
        j \in BOOLEAN}

\* responseError, responseOk, and an exception that leaves lambdaHandler.
responseError(statusCode, errorCode, raised, served) ==
    [kind |-> "http", statusCode |-> statusCode, success |-> FALSE, errorCode |-> errorCode,
     raised |-> raised, served |-> served]
responseOk(served) ==
    [kind |-> "http", statusCode |-> HTTP_STATUS_OK, success |-> TRUE, errorCode |-> "",
     raised |-> None, served |-> served]
Unhandled(raised, served) ==
    [kind |-> "unhandled", statusCode |-> 0, success |-> FALSE, errorCode |-> "",
     raised |-> raised, served |-> served]

\* cognitoGroups: the claim when the event has an authorizer, [] otherwise.
cognitoGroups(req) == IF req.authorizer THEN req.claim ELSE [present |-> TRUE, groups |-> {}]

\* isUserAuthorized; reading .length of an absent claim throws a TypeError.
isUserAuthorized(authorizedGroups, groupMemberships) ==
    IF authorizedGroups = {} THEN "true"
    ELSE IF ~groupMemberships.present THEN "TypeError"
    ELSE IF groupMemberships.groups = {} THEN "false"
    ELSE IF authorizedGroups \cap groupMemberships.groups # {} THEN "true"
    ELSE "false"

\* The catch block of a route: the error classes it turns into an envelope.
Caught(routeKey, raised) ==
    \/ raised \in {"ValiError", "ValidationError", "StorageError"}
    \/ raised = "NoSqlError" /\ routeKey \notin {DeleteWhitelistRoute, UploadWhitelistRoute}

\* lambdaHandler up to the switch over the routes: the route key check, the
\* authorization, and JSON.parse of the body.
Authorize ==
    /\ response = NoResponse
    /\ rpc = "received"
    /\ LET isAuthorized == isUserAuthorized(request.authorizedGroups, cognitoGroups(request))
       IN IF request.routeKey \notin RouteKey
          THEN /\ response' = responseError(HTTP_STATUS_OK, ValidationErrorCode, None, FALSE)
               /\ rpc' = "answered"
          ELSE IF isAuthorized = "TypeError"
          THEN /\ response' = Unhandled("TypeError", FALSE)
               /\ rpc' = "answered"
          ELSE IF isAuthorized = "false"
          THEN /\ response' = responseError(HTTP_STATUS_FORBIDDEN, UnauthorizedAccess, None, FALSE)
               /\ rpc' = "answered"
          ELSE IF ~request.bodyIsJson
          THEN /\ response' = Unhandled("SyntaxError", FALSE)
               /\ rpc' = "answered"
          ELSE /\ rpc' = "authorized"
               /\ UNCHANGED response
    /\ UNCHANGED <<request, exceptRoute>>

\* The case of the route: the service is called and its outcome answered.
Serve(outcome) ==
    /\ rpc = "authorized"
    /\ outcome \in ServiceOutcomes(request.routeKey)
    /\ response' =
          IF outcome = Ok THEN responseOk(TRUE)
          ELSE IF outcome = "notFound"
               THEN responseError(HTTP_STATUS_OK, ResourceNotFound, None, TRUE)
          ELSE IF ~Caught(request.routeKey, outcome) THEN Unhandled(outcome, TRUE)
          ELSE IF outcome \in {"ValiError", "ValidationError"}
               THEN responseError(HTTP_STATUS_OK, ValidationErrorCode, outcome, TRUE)
          ELSE IF outcome = "StorageError"
               THEN responseError(HTTP_STATUS_OK, S3Error, outcome, TRUE)
          ELSE responseError(HTTP_STATUS_OK, KvError, outcome, TRUE)
    /\ rpc' = "answered"
    /\ UNCHANGED <<request, exceptRoute>>

RouteOutcomes == UNION {ServiceOutcomes(routeKey) : routeKey \in RouteKey}

RouteInit ==
    /\ ServiceIdle
    /\ BuilderIdle
    /\ PagingIdle
    /\ request \in {req \in Requests :
                      /\ req.routeKey \in OpenRoutes \cup {UnknownRoute} => req.authorizedGroups = {}
                      /\ ~req.authorizer => req.claim = NoClaim}
    /\ response = NoResponse
    /\ rpc = "received"
    /\ ChainIdle
    /\ BatchIdle

RouteNext ==
    \/ Authorize
    \/ \E outcome \in RouteOutcomes : Serve(outcome)

RouteSpec == RouteInit /\ [][RouteNext]_vars

\* ======================================================================
\* On-chain verifier: MerkleTreeWhitelist
\* ======================================================================

\* ---------------------------------------------------------------- bounds
\* Number of accounts that send transactions and appear in whitelists.
NAccounts == 2
\* Largest number of elements of a proof passed to isWhitelistedFor.
MaxProofLen == 2

\* Accounts; address(0) is 0.
Accounts == 1..NAccounts

\* Amounts in wei (in the units of parseEther above).
ChainAmounts == {10, 20}

\* An address as the leaf encoding takes it.
AddressOf(account) == [id |-> account, form |-> "checksum"]

\* The (address, amount) values whitelists are made of, their leaf hashes,
\* and the whitelists of one or two entries.
ChainValues == {<<AddressOf(a), w>> : a \in Accounts, w \in ChainAmounts}
ChainLeaves == {standardLeafHash(value) : value \in ChainValues}
ChainWhitelists ==
    {<<v>> : v \in ChainValues}
        \cup {pair \in ChainValues \X ChainValues : pair[1][1] # pair[2][1]}

\* bytes32 values passed as roots: the roots of those whitelists.
ChainRoots == {StandardMerkleTreeOf(values).tree[1] : values \in ChainWhitelists}

\* Proofs passed to the verifier: any leaf hashes, up to MaxProofLen of them.
ChainProofs == UNION {[1..n -> ChainLeaves] : n \in 0..MaxProofLen}

\* Mutant: updateRoot without the onlyOwner modifier.
updateRootByAnyone(sender, newRoot) ==
    /\ merkleRoot' = newRoot
    /\ lastTx' = [NoTx EXCEPT !.fn = "updateRoot", !.sender = sender, !.newRoot = newRoot,
                              !.event = [name |-> "RootChange", old |-> merkleRoot, new |-> newRoot]]
    /\ UNCHANGED <<contractOwner, exceptChain>>

\* updateRoot(newRoot) external onlyOwner.
updateRoot(sender, newRoot) ==
    /\ IF sender # contractOwner
       THEN /\ lastTx' = [NoTx EXCEPT !.fn = "updateRoot", !.sender = sender, !.newRoot = newRoot,
                                      !.outcome = "OwnableUnauthorizedAccount"]
            /\ UNCHANGED merkleRoot
       ELSE /\ merkleRoot' = newRoot
            /\ lastTx' = [NoTx EXCEPT !.fn = "updateRoot", !.sender = sender, !.newRoot = newRoot,
                                      !.event = [name |-> "RootChange", old |-> merkleRoot,
                                                 new |-> newRoot]]
    /\ UNCHANGED <<contractOwner, exceptChain>>

\* transferOwnership(newOwner) of Ownable.
transferOwnership(sender, newOwner) ==
    /\ IF sender # contractOwner
       THEN /\ lastTx' = [NoTx EXCEPT !.fn = "transferOwnership", !.sender = sender,
                                      !.account = newOwner,
                                      !.outcome = "OwnableUnauthorizedAccount"]
            /\ UNCHANGED contractOwner
       ELSE IF newOwner = 0
       THEN /\ lastTx' = [NoTx EXCEPT !.fn = "transferOwnership", !.sender = sender,
                                      !.account = newOwner, !.outcome = "OwnableInvalidOwner"]
            /\ UNCHANGED contractOwner
       ELSE /\ contractOwner' = newOwner
            /\ lastTx' = [NoTx EXCEPT !.fn = "transferOwnership", !.sender = sender,
                                      !.account = newOwner,
                                      !.event = [name |-> "OwnershipTransferred",
                                                 old |-> <<contractOwner>>, new |-> <<newOwner>>]]
    /\ UNCHANGED <<merkleRoot, exceptChain>>

\* renounceOwnership() of Ownable.
renounceOwnership(sender) ==
    /\ IF sender # contractOwner
       THEN /\ lastTx' = [NoTx EXCEPT !.fn = "renounceOwnership", !.sender = sender,
                                      !.outcome = "OwnableUnauthorizedAccount"]
            /\ UNCHANGED contractOwner
       ELSE /\ contractOwner' = 0
            /\ lastTx' = [NoTx EXCEPT !.fn = "renounceOwnership", !.sender = sender,
                                      !.event = [name |-> "OwnershipTransferred",
                                                 old |-> <<contractOwner>>, new |-> <<0>>]]
    /\ UNCHANGED <<merkleRoot, exceptChain>>

\* A call of the view function isWhitelistedFor.
callIsWhitelistedFor(sender, whitelistAddress, whitelistAmountWei, proof) ==
    /\ lastTx' = [NoTx EXCEPT !.fn = "isWhitelistedFor", !.sender = sender,
                              !.account = whitelistAddress, !.amountWei = whitelistAmountWei,
                              !.proof = proof,
                              !.outcome = isWhitelistedFor(merkleRoot, AddressOf(whitelistAddress),
                                                           whitelistAmountWei, proof)]
    /\ UNCHANGED <<merkleRoot, contractOwner, exceptChain>>

\* constructor(initialOwner, root): Ownable(initialOwner) reverts for address(0).
ChainInit ==
    /\ ServiceIdle
    /\ BuilderIdle
    /\ PagingIdle
    /\ RouteIdle
    /\ merkleRoot \in ChainRoots
    /\ contractOwner \in Accounts
    /\ lastTx = NoTx
    /\ BatchIdle

ChainNext ==
    \/ \E sender \in Accounts, newRoot \in ChainRoots : updateRoot(sender, newRoot)
    \/ \E sender \in Accounts, newOwner \in Accounts \cup {0} : transferOwnership(sender, newOwner)
    \/ \E sender \in Accounts : renounceOwnership(sender)
    \/ \E sender \in Accounts, whitelistAddress \in Accounts \cup {0},
          whitelistAmountWei \in ChainAmounts, proof \in ChainProofs :
          callIsWhitelistedFor(sender, whitelistAddress, whitelistAmountWei, proof)

ChainSpec == ChainInit /\ [][ChainNext]_vars

\* ----------------------------------------------------------------------
\* The bulk operations of the KV adapter (specification BatchSpec)
\* ----------------------------------------------------------------------

\* Length of the longest input array of a bulk operation.
MaxBulkItems == 5
\* Chunk size of the transactional writes, scaled down from 100.
TransactWriteMaxItems == 3

BatchWrites == {"batchDeleteWrite", "batchPutWrite"}
TransactWrites == {"transactDeleteWrite", "transactInsertWrite"}
BulkOperations == BatchWrites \cup {"batchInsertExecuteStatement"} \cup TransactWrites

\* The chunk size each operation hands to chunkArray.
StrideOf(operation) ==
    IF operation \in BatchWrites THEN BatchWriteMaxItems
    ELSE IF operation = "batchInsertExecuteStatement" THEN BatchExecuteMaxItems
    ELSE TransactWriteMaxItems

\* chunkArray: for (i = 0; i < array.length; i += stride) yield the slice at i.
RECURSIVE chunkArrayFrom(_, _, _)
chunkArrayFrom(array, i, stride) ==
    IF i < Len(array)
    THEN <<ChunkAt(array, i, stride)>> \o chunkArrayFrom(array, i + stride, stride)
    ELSE <<>>

chunkArray(array, stride) == chunkArrayFrom(array, 0, stride)

\* The items of s that are in keep, in the order of s.
RECURSIVE Restrict(_, _)
Restrict(s, keep) ==
    IF Len(s) = 0 THEN <<>>
    ELSE (IF Head(s) \in keep THEN <<Head(s)>> ELSE <<>>) \o Restrict(Tail(s), keep)

\* The calls: the items of the input array are told apart by their index.
BulkCalls ==
    {[operation |-> operation, input |-> [i \in 1..n |-> i], maxRetries |-> maxRetries] :
        operation \in BulkOperations, n \in 0..MaxBulkItems,
        maxRetries \in -1..BatchWriteDefaultMaxRetries}

\* A loop that reports the items it gives up on.
AfterRetriesFailing(hasUnprocessedItems) ==
    IF hasUnprocessedItems THEN "UnprocessedItems" ELSE Ok

\* What follows the statements of the operation once the retry loop of a
\* chunk is left: nothing, whether or not items were still unprocessed.
AfterRetries(hasUnprocessedItems) == Ok

\* The for loop over the chunks goes on to chunk k, or the operation returns.
EnterChunk(k, applied) ==
    LET chunks == chunkArray(bulk.input, StrideOf(bulk.operation))
    IN IF k <= Len(chunks)
       THEN [status |-> "running", chunk |-> k, command |-> chunks[k], retryCount |-> 0,
             result |-> None, applied |-> applied]
       ELSE [status |-> "returned", chunk |-> 0, command |-> <<>>, retryCount |-> 0,
             result |-> Ok, applied |-> applied]

\* The operation ends with a thrown error.
Throw(error, applied) ==
    [status |-> "threw", chunk |-> run.chunk, command |-> <<>>,
     retryCount |-> run.retryCount, result |-> error, applied |-> applied]

Request(shape, unprocessed) ==
    [chunk |-> run.chunk, items |-> run.command, retryCount |-> run.retryCount,
     shape |-> shape, unprocessed |-> unprocessed]

\* The argument validation, then the first chunk. Only the batch writes take
\* and validate maxRetries.
BulkStart ==
    /\ run.status = "called"
    /\ run' = IF bulk.operation \in BatchWrites /\ bulk.maxRetries < 0
              THEN Throw(ValidationErrorCode, {})
              ELSE EnterChunk(1, {})
    /\ UNCHANGED <<bulk, sent, exceptBatch>>

\* The store reports "nothing unprocessed" as an absent UnprocessedItems or
\* as an empty map. batchDeleteWrite reads [] from both; batchPutWrite tests
\* the map only, indexes it, and reads undefined from the empty map.
ReadsUndefined(operation, shape) == operation = "batchPutWrite" /\ shape = "emptyMap"

\* One BatchWrite request of batchDeleteWrite or batchPutWrite and the body
\* of the do-while loop after it.
BatchWriteSend ==
    /\ run.status = "running"
    /\ bulk.operation \in BatchWrites
    /\ \/ /\ run' = Throw(KvError, run.applied)
          /\ sent' = Append(sent, Request("threw", <<>>))
       \/ \E keep \in SUBSET SeqRange(run.command), shape \in {"list", "absent", "emptyMap"} :
            LET unprocessed == Restrict(run.command, keep)
                applied == run.applied \cup (SeqRange(run.command) \ keep)
                unprocessedItems == unprocessed
            IN /\ (shape = "list") = (keep # {})
               /\ sent' = Append(sent, Request(shape, unprocessed))
               /\ run' =
                    IF ReadsUndefined(bulk.operation, shape)
                    THEN Throw("TypeError", applied)
                    ELSE IF RetryAgain(Len(unprocessedItems) > 0, run.retryCount + 1,
                                       bulk.maxRetries)
                    THEN [run EXCEPT !.command = unprocessedItems,
                                     !.retryCount = run.retryCount + 1,
                                     !.applied = applied]
                    ELSE IF AfterRetries(Len(unprocessedItems) > 0) # Ok
                    THEN Throw(AfterRetries(Len(unprocessedItems) > 0), applied)
                    ELSE EnterChunk(run.chunk + 1, applied)
    /\ UNCHANGED <<bulk, exceptBatch>>

\* One BatchExecuteStatement request of batchInsertExecuteStatement: any
\* statement's Error in the response ends the operation with a plain Error.
BatchExecuteSend ==
    /\ run.status = "running"
    /\ bulk.operation = "batchInsertExecuteStatement"
    /\ \/ /\ run' = Throw(KvError, run.applied)
          /\ sent' = Append(sent, Request("threw", <<>>))
       \/ \E failed \in SUBSET SeqRange(run.command) :
            LET applied == run.applied \cup (SeqRange(run.command) \ failed)
            IN /\ sent' = Append(sent, Request(IF failed = {} THEN "ok" ELSE "statementError",
                                               Restrict(run.command, failed)))
               /\ run' = IF failed # {}
                         THEN Throw(BatchStatementError, applied)
                         ELSE EnterChunk(run.chunk + 1, applied)
    /\ UNCHANGED <<bulk, exceptBatch>>

\* One TransactWrite request of transactDeleteWrite or transactInsertWrite:
\* the store applies the whole chunk or rejects it.
TransactWriteSend ==
    /\ run.status = "running"
    /\ bulk.operation \in TransactWrites
    /\ \/ /\ run' = Throw(KvError, run.applied)
          /\ sent' = Append(sent, Request("threw", <<>>))
       \/ /\ run' = EnterChunk(run.chunk + 1, run.applied \cup SeqRange(run.command))
          /\ sent' = Append(sent, Request("ok", <<>>))
    /\ UNCHANGED <<bulk, exceptBatch>>

BatchInit ==
    /\ ServiceIdle
    /\ BuilderIdle
    /\ PagingIdle
    /\ RouteIdle
    /\ ChainIdle
    /\ bulk \in BulkCalls
    /\ run = [NoRun EXCEPT !.status = "called"]
    /\ sent = <<>>

BatchNext ==
    \/ BulkStart
    \/ BatchWriteSend
    \/ BatchExecuteSend
    \/ TransactWriteSend

BatchSpec == BatchInit /\ [][BatchNext]_vars

\* ======================================================================
\* Properties
\* ======================================================================

\* The request that takes the step.
Acts(r) == <<pc[r], idx[r], cmd[r], keys[r]>>' # <<pc[r], idx[r], cmd[r], keys[r]>>

\* C1: every change of the roots row is one of absent->CREATING,
\* CREATING->COMPLETED, CREATING->FAILED, COMPLETED->DELETING,
\* FAILED->DELETING, DELETING->FAILED, DELETING->absent, under every
\* interleaving of the calls and with any KV call failing.
C1_LegalPairs ==
    {<<"ABSENT", Creating>>, <<Creating, Completed>>, <<Creating, Failed>>,
     <<Completed, Deleting>>, <<Failed, Deleting>>, <<Deleting, Failed>>,
     <<Deleting, "ABSENT">>}
C1_TransitionsInDiagram ==
    [][rootsRow' # rootsRow => <<rootsRow.status, rootsRow'.status>> \in C1_LegalPairs]_vars
\* A DeleteTree call is about to roll DELETING back while another call is in
\* progress.
C1_Witness ==
    \E r \in Reqs, q \in Reqs :
        /\ r # q
        /\ pc[r] = "d_comp"
        /\ rootsRow.status = Deleting
        /\ pc[q] = "c_insert"

\* C2 as stated: with the KV answering the insert, a CreateTree call inserts
\* the CREATING row when no row is present, only one call at a time is past
\* its insert, and an insert on an existing row fails with
\* ConditionalCheckFailed and leaves the row as it is.
C2_AtMostOneCreator == Cardinality({r \in Reqs : pc[r] \in CreateHolding}) <= 1
C2_InsertStep(conflicts) ==
    \A r \in Reqs :
        (pc[r] = "c_insert" /\ pc'[r] # "c_insert" /\ res'[r] # KvError) =>
            IF rootsRow = Absent
            THEN rootsRow' = Row(root[r], Creating) /\ pc'[r] = "c_bulk"
            ELSE rootsRow' = rootsRow /\ pc'[r] = "idle" /\ res'[r] \in conflicts
C3_Original ==
    [][\A r \in Reqs :
          (pc[r] = "d_flip" /\ pc'[r] = "d_query") => "flip" \notin ovl[r]]_vars
\* C3 amended: two DeleteTree calls never hold DELETING at the same time; a
\* conditional put that finds the row DELETING, or with another root or
\* status, fails with ConditionalCheckFailed and leaves the row as it is.
\* (A second overlapping call can make its own transition once the first
\* has rolled the row back to FAILED.)
C3_AtMostOneDeleter == Cardinality({r \in Reqs : pc[r] \in DeleteHolding}) <= 1
C3_FlipStep ==
    \A r \in Reqs :
        (/\ pc[r] = "d_flip"
         /\ pc'[r] # "d_flip"
         /\ res'[r] # KvError
         /\ ~(rootsRow.root = root[r] /\ rootsRow.status \in {Completed, Failed})) =>
            rootsRow' = rootsRow /\ pc'[r] = "idle" /\ res'[r] = CondFailed
C3_OneDeleterAtATime == [](C3_AtMostOneDeleter) /\ [][C3_FlipStep]_vars
\* One DeleteTree call holds DELETING, the other has lost the conditional put.
C3_Witness ==
    \E r \in Reqs, q \in Reqs :
        /\ r # q
        /\ pc[r] \in DeleteHolding
        /\ rootsRow = Row(root[r], Deleting)
        /\ pc[q] = "idle"
        /\ res[q] = CondFailed

\* C4 as stated: a CreateTree call and a DeleteTree call never both return
\* success when one returned while the other was under way.
C4_Original ==
    [][\A r \in Reqs :
          /\ (pc[r] = "c_complete" /\ res'[r] = Ok) => "delOk" \notin ovl[r]
          /\ (pc[r] = "d_delroot" /\ res'[r] = Ok) => "creOk" \notin ovl[r]]_vars
\* C4 amended: a CreateTree call past its insert and a DeleteTree call past
\* its transition to DELETING never coexist, so overlapping calls both
\* succeed only when all roots-row writes of one precede those of the other.
C4_NeverBothHold ==
    ~ \E r \in Reqs, q \in Reqs : pc[r] \in CreateHolding /\ pc[q] \in DeleteHolding
\* A CreateTree call holds CREATING while a DeleteTree call that read the
\* earlier tree is about to try its conditional put.
C4_Witness ==
    \E r \in Reqs, q \in Reqs :
        /\ pc[r] \in CreateHolding
        /\ rootsRow = Row(root[r], Creating)
        /\ pc[q] = "d_flip"
        /\ root[q] = root[r]

\* C5: between its insert and its deletion the row keeps its MerkleRoot:
\* every write to an existing row leaves MerkleRoot as it was.
C5_RootNeverChanges ==
    [][(rootsRow # Absent /\ rootsRow' # Absent) => rootsRow'.root = rootsRow.root]_vars
\* A DeleteTree call that read an earlier tree with another root is about
\* to try its conditional put on the current row.
C5_Witness ==
    \E q \in Reqs :
        /\ pc[q] = "d_flip"
        /\ rootsRow.status \in {Completed, Failed}
        /\ rootsRow.root # root[q]

\* C6: a request that writes a proof row does so while the roots row is
\* CREATING, set by that request; a request that deletes a proof row does so
\* while the roots row is DELETING, set by that request.
C6_ProofWritersHold ==
    [][\A r \in Reqs :
          Acts(r) =>
            /\ (\E a \in Addrs : proofs'[a] # proofs[a] /\ proofs'[a] # 0) =>
                  (rootsRow.status = Creating /\ owner = r)
            /\ (\E a \in Addrs : proofs'[a] # proofs[a] /\ proofs'[a] = 0) =>
                  (rootsRow.status = Deleting /\ owner = r)]_vars
\* A DeleteTree call is part way through the proof rows while another call
\* waits at its insert.
C6_Witness ==
    \E r \in Reqs, q \in Reqs :
        /\ pc[r] = "d_batch"
        /\ \E a \in Addrs : proofs[a] # 0
        /\ \E a \in Addrs : proofs[a] = 0
        /\ pc[q] = "c_insert"

\* C7: when a read of the roots row made by getMerkleProof finds no row or a
\* row that is not COMPLETED, the call ends there with a Validation failure:
\* it does not go on to read the proofs table and returns no proof data.
C7_NotReadyIsValidation ==
    [][\A r \in Reqs :
          (/\ pc[r] \in {"p_root", "p_root2"}
           /\ pc'[r] # pc[r]
           /\ res'[r] # KvError
           /\ (rootsRow = Absent \/ rootsRow.status # Completed)) =>
              pc'[r] = "idle" /\ res'[r] \in Validation]_vars
\* getMerkleProof has answered "not ready" on a tree that is being created.
C7_Witness ==
    \E r \in Reqs :
        /\ pc[r] = "idle"
        /\ res[r] = TreeNotReady
        /\ rootsRow.status = Creating

\* C8: a DeleteWhitelist call whose read finds a roots row, in any status,
\* fails with Validation and changes neither the CSV blob nor the two
\* tables; the CSV is deleted only by a call whose read found no roots row.
C8_DeleteWhitelistRefuses ==
    [][/\ \A r \in Reqs :
            (/\ pc[r] = "w_get"
             /\ pc'[r] # pc[r]
             /\ res'[r] # KvError
             /\ rootsRow # Absent) =>
                /\ pc'[r] = "idle"
                /\ res'[r] \in Validation
                /\ UNCHANGED <<blob, rootsRow, proofs>>
       /\ (blob # 0 /\ blob' = 0) =>
            \E r \in Reqs : pc[r] = "w_del" /\ pc'[r] = "idle"]_vars
\* DeleteWhitelist has been refused on a tree in DELETING; the CSV is there.
C8_Witness ==
    \E r \in Reqs :
        /\ pc[r] = "idle"
        /\ res[r] = TreeExistsError
        /\ rootsRow.status = Deleting
        /\ blob # 0

C10_DeleteLeavesNothing ==
    [][\A r \in Reqs :
          (pc[r] = "d_delroot" /\ pc'[r] = "idle" /\ res'[r] = Ok) =>
              rootsRow' = Absent /\ \A a \in Addrs : proofs'[a] = 0]_vars

\* C11 as stated: when a part of step 3 of DeleteTree has failed, the roots
\* row is FAILED under the same MerkleRoot when the call returns.
C11_Original ==
    [][\A r \in Reqs :
          (pc[r] = "d_comp" /\ pc'[r] = "idle") => rootsRow' = Row(root[r], Failed)]_vars
\* C11 amended: that holds when the compensating put succeeds, and the call
\* then returns the failure of step 3; when the compensating put itself
\* fails, the row is still DELETING under the same MerkleRoot on return.
C11_RolledBackWhenCompensated ==
    [][\A r \in Reqs :
          (pc[r] = "d_comp" /\ pc'[r] = "idle") =>
              /\ rootsRow = Row(root[r], Deleting)
              /\ \/ rootsRow' = Row(root[r], Failed) /\ res'[r] = res[r]
                 \/ rootsRow' = rootsRow]_vars
\* The bulk proof delete has failed part way: some proof rows are gone, some
\* remain, and the call is about to compensate.
C11_Witness ==
    \E r \in Reqs :
        /\ pc[r] = "d_comp"
        /\ res[r] = KvError
        /\ rootsRow = Row(root[r], Deleting)
        /\ \E a \in SeqRange(WhitelistOf(root[r])) : proofs[a] = 0
        /\ \E a \in SeqRange(WhitelistOf(root[r])) : proofs[a] # 0

\* C12: a DeleteTree call whose getItem finds no roots row, or a row in
\* CREATING or DELETING, ends there with a Validation failure and the roots
\* row, the proof rows and the CSV are as they were.
C12_DeleteRefusesPending ==
    [][\A r \in Reqs :
          (/\ pc[r] = "d_get"
           /\ pc'[r] # pc[r]
           /\ res'[r] # KvError
           /\ (rootsRow = Absent \/ rootsRow.status \in {Creating, Deleting})) =>
              /\ pc'[r] = "idle"
              /\ res'[r] = (IF rootsRow = Absent THEN TreeNotFound ELSE TreePending)
              /\ res'[r] \in Validation
              /\ UNCHANGED <<rootsRow, proofs, blob>>]_vars
\* DeleteTree has been refused as pending while another DeleteTree call
\* holds the row in DELETING.
C12_Witness ==
    \E r \in Reqs, q \in Reqs :
        /\ pc[r] = "idle"
        /\ res[r] = TreePending
        /\ pc[q] \in DeleteHolding
        /\ rootsRow = Row(root[q], Deleting)

\* C13: when the compensating put of CreateTree or DeleteTree fails (the row
\* stays as it was), the call returns the failure that led to the
\* compensation.
C13_OriginalErrorSurfaced ==
    [][\A r \in Reqs :
          (pc[r] \in {"c_comp", "d_comp"} /\ pc'[r] = "idle" /\ rootsRow' = rootsRow) =>
              res'[r] = res[r]]_vars

\* C14: leaving aside the returns on a failed compensating put, a CreateTree
\* call that inserted its row returns with the row COMPLETED or FAILED, and a
\* DeleteTree call that put DELETING returns with the row absent or FAILED.
C14_NoStuckRow ==
    [][\A r \in Reqs :
          (/\ pc'[r] = "idle"
           /\ ~(pc[r] \in {"c_comp", "d_comp"} /\ rootsRow' = rootsRow)) =>
              /\ pc[r] \in CreateHolding => rootsRow'.status \in {Completed, Failed}
              /\ pc[r] \in DeleteHolding => rootsRow'.status \in {"ABSENT", Failed}]_vars

\* C15: while the roots row is COMPLETED, its MerkleRoot and the proof rows
\* of the name stay as they are under every step of every call, until a
\* DeleteTree call puts DELETING (which keeps the MerkleRoot and the proofs).
C15_CompletedIsImmutable ==
    [][rootsRow.status = Completed =>
          /\ proofs' = proofs
          /\ \/ rootsRow' = rootsRow
             \/ /\ rootsRow' = Row(rootsRow.root, Deleting)
                /\ \E r \in Reqs : pc[r] = "d_flip" /\ pc'[r] = "d_query"]_vars
\* On a COMPLETED tree with all its proofs, a CreateTree call has lost its
\* insert and an Upload has been refused.
C15_Witness ==
    \E r \in Reqs, q \in Reqs :
        /\ rootsRow.status = Completed
        /\ \A a \in SeqRange(WhitelistOf(rootsRow.root)) : proofs[a] = rootsRow.root
        /\ pc[r] = "idle" /\ res[r] \in InsertConflictErrors
        /\ pc[q] = "idle" /\ res[q] = Exists

\* ----------------------------------------------------------------------
\* Merkle builder claims (specification BuilderSpec)
\* ----------------------------------------------------------------------

\* The rows of the CSV all pass the per-row checks of the input gate.
AllRowsPass == \A i \in 1..Len(whitelistEntries) : RowError(whitelistEntries[i]) = ""

\* Two rows spell the same 20-byte address.
SomeAddressTwice ==
    \E i, j \in 1..Len(whitelistEntries) :
        /\ i # j
        /\ whitelistEntries[i].WhitelistAddress.id = whitelistEntries[j].WhitelistAddress.id

\* Spellings getAddress accepts: EIP-55, all-lowercase, all-uppercase digits.
ValidCasings == {"checksum", "lower", "upper"}

\* C16: every proof the builder emits, folded from the double-hashed leaf of
\* its own (address, amount) with sorted-pair hashing, gives the emitted
\* root, and the on-chain verifier holding that root accepts it.
C16_ProofRoundTrip ==
    /\ (bpc = "stored") =>
          \A i \in 1..Len(built.records) :
              /\ processProof(getProof(built.tree, built.treeIndex[i]),
                     keccak256(keccak256(AbiEncode(built.records[i].WhitelistAddress,
                                                   built.records[i].WhitelistAmountWei))))
                   = stored.MerkleRoot
              /\ isWhitelistedFor(stored.MerkleRoot,
                                  built.records[i].WhitelistAddress,
                                  built.records[i].WhitelistAmountWei,
                                  getProof(built.tree, built.treeIndex[i])) = "true"
    /\ (checked # NoCheck /\ checked.leaf = checked.proofOf) => checked.result = "true"

\* A three-leaf tree was stored and the verifier was asked about an entry
\* whose proof has two elements.
C16_Witness ==
    /\ bpc = "stored"
    /\ Len(built.records) = 3
    /\ checked # NoCheck
    /\ checked.leaf = checked.proofOf
    /\ Len(getProof(built.tree, built.treeIndex[checked.leaf])) = 2
    /\ checked.result = "true"

\* C17: a CSV with a single valid row is stored with the leaf hash of that
\* row as root and exactly one proof row, whose MerkleProof is the empty string.
C17_SingleRowTree ==
    (Len(whitelistEntries) = 1 /\ AllRowsPass /\ bpc # "parsed") =>
        /\ bpc \in {"built", "stored"}
        /\ built.root = standardLeafHash(<<getAddress(whitelistEntries[1].WhitelistAddress),
                                           parseEther(whitelistEntries[1].WhitelistAmount)>>)
        /\ Len(built.records) = 1
        /\ built.records[1].MerkleProof = <<>>
        /\ (bpc = "stored") =>
              /\ stored.MerkleRoot = built.root
              /\ stored.items = {[MerkleProof |-> <<>>,
                                  WhitelistAddress |-> getAddress(whitelistEntries[1].WhitelistAddress),
                                  WhitelistAmountWei |-> parseEther(whitelistEntries[1].WhitelistAmount)]}

C17_Witness ==
    /\ Len(whitelistEntries) = 1
    /\ bpc = "stored"
    /\ whitelistEntries[1].WhitelistAddress.form = "lower"
    /\ Cardinality(stored.items) = 1

\* C18 (as stated): a CSV with a header and no data rows is rejected with a
\* Validation error, and no roots row and no proof row is written.
C18_EmptyCsvIsValidation ==
    (Len(whitelistEntries) = 0 /\ bpc # "parsed") =>
        /\ bpc = "done"
        /\ thrown.kind = "Validation"
        /\ stored = NoRows

\* C19: rows whose addresses are equal after checksum normalization, also
\* when they differ only in casing, are rejected with a Validation error
\* and no roots row is inserted.
C19_DuplicatesRejected ==
    (SomeAddressTwice /\ bpc # "parsed") =>
        /\ bpc = "done"
        /\ thrown.kind = "Validation"
        /\ AllRowsPass => thrown = GateError("Duplicate whitelist address")
        /\ built = NoTree
        /\ stored = NoRows

\* Two valid rows spell one address in different casings and the call was rejected.
C19_Witness ==
    /\ Len(whitelistEntries) = 2
    /\ AllRowsPass
    /\ whitelistEntries[1].WhitelistAddress.id = whitelistEntries[2].WhitelistAddress.id
    /\ whitelistEntries[1].WhitelistAddress.form = "checksum"
    /\ whitelistEntries[2].WhitelistAddress.form = "lower"
    /\ bpc = "done"
    /\ thrown = GateError("Duplicate whitelist address")

\* C20: for a COMPLETED tree, getMerkleProof returns the same record for
\* every valid casing of an address: the record stored under its
\* checksummed spelling (nothing when the address is not in the tree).
C20_CasingInsensitiveLookup ==
    /\ (bpc = "stored") =>
          \A a, b \in AddressStrings :
              (a.id = b.id /\ a.form \in ValidCasings /\ b.form \in ValidCasings /\ a.id # 0) =>
                  QueryMerkleProof(a) = QueryMerkleProof(b)
    /\ (answer # NoAnswer /\ answer.whitelistAddress.form \in ValidCasings
          /\ answer.whitelistAddress.id # 0) =>
          /\ answer.error = ""
          /\ answer.item = {record \in stored.items :
                              record.WhitelistAddress.id = answer.whitelistAddress.id}

\* A lookup by the lowercase spelling returned the record of a tree entry
\* that the CSV spelled in uppercase.
C20_Witness ==
    /\ answer # NoAnswer
    /\ answer.whitelistAddress.form = "lower"
    /\ Cardinality(answer.item) = 1
    /\ \E i \in 1..Len(whitelistEntries) :
          /\ whitelistEntries[i].WhitelistAddress.id = answer.whitelistAddress.id
          /\ whitelistEntries[i].WhitelistAddress.form = "upper"

\* ----------------------------------------------------------------------
\* Paging claims (specification PagingSpec)
\* ----------------------------------------------------------------------

\* The rows of the pages returned so far, in the order they came.
RECURSIVE Flatten(_)
Flatten(seqs) == IF Len(seqs) = 0 THEN <<>> ELSE seqs[1] \o Flatten(Tail(seqs))

\* No page is larger than pageSize, no row came twice, and a paging that
\* ended delivered every row of the table.
PagesCoverOnce ==
    /\ \A k \in 1..Len(pages) : Len(pages[k]) <= pageSize
    /\ \A i, j \in 1..Len(Flatten(pages)) : i # j => Flatten(pages)[i] # Flatten(pages)[j]
    /\ SeqRange(Flatten(pages)) \subseteq scanTable
    /\ (ppc = "end") => SeqRange(Flatten(pages)) = scanTable

\* Three rows paged by two: two rows and a token, then one row and no token.
ThreeByTwo ==
    (Cardinality(scanTable) = 3 /\ pageSize = 2 /\ Len(pages) >= 1) =>
        /\ Len(pages[1]) = 2
        /\ (Len(pages) = 1) => (ppc = "paging" /\ nextToken # 0)
        /\ (Len(pages) >= 2) => (Len(pages) = 2 /\ Len(pages[2]) = 1 /\ ppc = "end")

\* C21 (as stated): paging returns every row exactly once in pages of at
\* most pageSize rows, and a page that exhausts the table returns no token.
C21_Original ==
    /\ PagesCoverOnce
    /\ ThreeByTwo
    /\ (ppc = "paging" /\ Len(pages) > 0) => SeqRange(Flatten(pages)) # scanTable

\* C21 (amended): paging returns every row exactly once in pages of at most
\* pageSize rows; a page that comes with a token is full, so a page that
\* exhausts the table with fewer than pageSize rows returns no token; a
\* request made after the table was exhausted returns no row and no token.
C21_PagingCoversOnce ==
    /\ PagesCoverOnce
    /\ ThreeByTwo
    /\ (ppc = "paging" /\ Len(pages) > 0) => Len(pages[Len(pages)]) = pageSize
    /\ (Len(pages) >= 2 /\ SeqRange(Flatten(SubSeq(pages, 1, Len(pages) - 1))) = scanTable) =>
          (Len(pages[Len(pages)]) = 0 /\ ppc = "end")

\* Three rows were paged by two and the paging ended with the second page.
C21_Witness ==
    /\ Cardinality(scanTable) = 3
    /\ pageSize = 2
    /\ ppc = "end"
    /\ Len(pages) = 2
    /\ Len(pages[2]) = 1

\* C22: the result of getMerkleTrees is a possible result for every roots
\* table that holds the same names whatever its MerkleRoot and
\* WhitelistStatus values are, and every record returned has the field
\* WhitelistName and no other.
C22_TreesDependOnNamesOnly ==
    /\ treesCall.called =>
          /\ \A t \in RootsTablesOf({x.WhitelistName : x \in scanTable}) :
                [MerkleTrees |-> treesCall.MerkleTrees,
                 LastEvaluatedKey |-> treesCall.LastEvaluatedKey]
                    \in getMerkleTrees(t, pageSize, treesCall.startingToken)
          /\ \A i \in 1..Len(treesCall.MerkleTrees) :
                DOMAIN treesCall.MerkleTrees[i] = {"WhitelistName"}
    /\ (ppc = "paging" /\ Len(pages) = 0 /\ ~treesCall.called /\ PageSizeValid(pageSize)) =>
          \A t \in RootsTablesOf({x.WhitelistName : x \in scanTable}), startingToken \in 0..NNames :
              getMerkleTrees(t, pageSize, startingToken)
                  = getMerkleTrees(scanTable, pageSize, startingToken)

\* A page of two names came with a token from a table whose rows differ in
\* root and status.
C22_Witness ==
    /\ treesCall.called
    /\ Len(treesCall.MerkleTrees) = 2
    /\ treesCall.LastEvaluatedKey # 0
    /\ \E x, y \in scanTable : x.MerkleRoot # y.MerkleRoot /\ x.WhitelistStatus # y.WhitelistStatus

\* C23: an UploadWhitelist that finds the CSV blob present fails, with the
\* Exists failure whenever the store answers the precondition, and leaves
\* the blob as it is; an upload succeeds only when it finds no blob and then
\* stores one, so of the uploads to an absent name only one succeeds; and a
\* stored blob changes only by being removed by DeleteWhitelist.
C23_UploadNeverOverwrites ==
    [][/\ \A r \in Reqs :
             (pc[r] = "u_put" /\ pc'[r] = "idle") =>
                 /\ (blob # 0) => (res'[r] \in {Exists, S3Error} /\ blob' = blob)
                 /\ (res'[r] = Ok) => (blob = 0 /\ blob' # 0)
                 /\ (res'[r] # Ok) => blob' = blob
       /\ (blob # 0 /\ blob' # blob) =>
             (blob' = 0 /\ \E r \in Reqs : pc[r] = "w_del" /\ pc'[r] = "idle" /\ res'[r] = Ok)]_vars

\* Two uploads to the absent name overlapped: one succeeded, the other was
\* refused with Exists.
C23_Witness ==
    \E r, q \in Reqs :
        /\ r # q
        /\ pc[r] = "idle" /\ res[r] = Ok
        /\ pc[q] = "idle" /\ res[q] = Exists
        /\ blob # 0
        /\ rootsRow = Absent

\* ----------------------------------------------------------------------
\* Route boundary claims (specification RouteSpec)
\* ----------------------------------------------------------------------

\* C24 (as stated): on every route, a Validation error (of the request
\* schema or of the services) or a KV adapter error (a NoSqlError, or the
\* error of a bulk insert statement) raised while serving the request is
\* answered with HTTP 200, success = false and an errorCode.
C24_ErrorsEnveloped ==
    (/\ rpc = "answered"
     /\ response.raised \in {"ValiError", "ValidationError", "NoSqlError", BatchStatementError}) =>
        /\ response.kind = "http"
        /\ response.statusCode = HTTP_STATUS_OK
        /\ ~response.success
        /\ response.errorCode # ""

\* The caller's token names none of the groups configured for the route
\* (it may name no group, carry no group claim, or there is no authorizer).
InNoListedGroup ==
    cognitoGroups(request).groups \cap request.authorizedGroups = {}

\* C25 (as stated): on a route with a non-empty group list a caller in none
\* of the listed groups, a caller with no groups included, is answered with
\* HTTP 403 and UnauthorizedAccess and no service operation runs; a route
\* with an empty list does not refuse any caller.
C25_OutsidersForbidden ==
    (rpc = "answered" /\ request.routeKey \in RouteKey) =>
        /\ (request.authorizedGroups # {} /\ InNoListedGroup) =>
              /\ response.kind = "http"
              /\ response.statusCode = HTTP_STATUS_FORBIDDEN
              /\ response.errorCode = UnauthorizedAccess
              /\ ~response.served
        /\ (request.authorizedGroups = {}) => response.statusCode # HTTP_STATUS_FORBIDDEN

\* ----------------------------------------------------------------------
\* On-chain verifier claims (specification ChainSpec)
\* ----------------------------------------------------------------------

\* C26: merkleRoot changes only in an updateRoot call sent by the owner;
\* such a call sets merkleRoot to newRoot and emits RootChange(oldRoot,
\* newRoot); updateRoot sent by any other account reverts and leaves
\* merkleRoot as it is; isWhitelistedFor never changes merkleRoot.
C26_RootChangesOnlyByOwner ==
    [][/\ (merkleRoot' # merkleRoot) =>
             /\ lastTx'.fn = "updateRoot"
             /\ lastTx'.sender = contractOwner
             /\ lastTx'.outcome = Ok
       /\ (lastTx' # lastTx /\ lastTx'.fn = "updateRoot") =>
             IF lastTx'.sender = contractOwner
             THEN /\ lastTx'.outcome = Ok
                  /\ merkleRoot' = lastTx'.newRoot
                  /\ lastTx'.event = [name |-> "RootChange", old |-> merkleRoot,
                                      new |-> lastTx'.newRoot]
             ELSE /\ lastTx'.outcome = "OwnableUnauthorizedAccount"
                  /\ lastTx'.event = NoEvent
                  /\ merkleRoot' = merkleRoot
       /\ (lastTx' # lastTx /\ lastTx'.fn # "updateRoot") => merkleRoot' = merkleRoot]_vars

\* The owner replaced the root by another one.
C26_Witness ==
    /\ lastTx.fn = "updateRoot"
    /\ lastTx.outcome = Ok
    /\ lastTx.event.name = "RootChange"
    /\ lastTx.event.old # lastTx.event.new
    /\ merkleRoot = lastTx.newRoot
    /\ lastTx.sender = contractOwner

\* The leaf folded with the elements of a proof by sorted-pair hashing.
RECURSIVE FoldSortedPairs(_, _)
FoldSortedPairs(proof, hash) ==
    IF Len(proof) = 0 THEN hash
    ELSE FoldSortedPairs(Tail(proof), standardNodeHash(hash, proof[1]))

\* C27: isWhitelistedFor reverts with "MTWL: zero address" for the zero
\* address whatever the proof is, returns true when the proof folds the leaf
\* of (address, amountWei) to the current merkleRoot, and reverts with
\* "MTWL: invalid proof" otherwise; a proof emitted for an entry of the
\* whitelist behind merkleRoot is accepted with that entry's address and
\* amount and rejected with any other address or amount.
C27_VerifierOutcome ==
    (lastTx.fn = "isWhitelistedFor") =>
        /\ (lastTx.account = 0) => lastTx.outcome = "MTWL: zero address"
        /\ (lastTx.account # 0) =>
              lastTx.outcome =
                  (IF FoldSortedPairs(lastTx.proof,
                          standardLeafHash(<<AddressOf(lastTx.account), lastTx.amountWei>>))
                        = merkleRoot
                   THEN "true" ELSE "MTWL: invalid proof")
        /\ \A values \in ChainWhitelists :
              \A i \in 1..Len(values) :
                  (/\ StandardMerkleTreeOf(values).tree[1] = merkleRoot
                   /\ lastTx.proof = getProof(StandardMerkleTreeOf(values).tree,
                                              StandardMerkleTreeOf(values).treeIndex[i])
                   /\ lastTx.account # 0) =>
                      lastTx.outcome =
                          (IF <<AddressOf(lastTx.account), lastTx.amountWei>> = values[i]
                           THEN "true" ELSE "MTWL: invalid proof")

\* The proof of an entry of a two-entry whitelist was presented with the
\* entry's address and another amount, and was rejected.
C27_Witness ==
    /\ lastTx.fn = "isWhitelistedFor"
    /\ lastTx.outcome = "MTWL: invalid proof"
    /\ \E values \in ChainWhitelists :
          /\ Len(values) = 2
          /\ StandardMerkleTreeOf(values).tree[1] = merkleRoot
          /\ \E i \in 1..2 :
                /\ lastTx.proof = getProof(StandardMerkleTreeOf(values).tree,
                                           StandardMerkleTreeOf(values).treeIndex[i])
                /\ AddressOf(lastTx.account) = values[i][1]
                /\ lastTx.amountWei # values[i][2]

\* ----------------------------------------------------------------------
\* Bulk-operation claims (specification BatchSpec)
\* ----------------------------------------------------------------------

\* The requests of the log that belong to chunk c.
RequestsOf(c) == {k \in 1..Len(sent) : sent[k].chunk = c}

\* C28: for each chunk, batchDeleteWrite and batchPutWrite resubmit exactly
\* the items the previous response reported as unprocessed, send nothing
\* more for the chunk once a response reports none, and send at most
\* maxRetries + 1 requests for it; the number of requests of the whole
\* operation is bounded whatever the store answers, and it shrinks the
\* distance to that bound with every request.
C28_RetryLoopBounded ==
    bulk.operation \in BatchWrites /\ run.status # "called" =>
        LET chunks == chunkArray(bulk.input, BatchWriteMaxItems)
            last == Len(sent)
        IN /\ \A k \in 1..(last - 1) :
                IF sent[k + 1].chunk = sent[k].chunk
                THEN /\ sent[k].shape = "list"
                     /\ sent[k + 1].items = sent[k].unprocessed
                     /\ sent[k + 1].retryCount = sent[k].retryCount + 1
                ELSE sent[k].shape = "list" => sent[k].retryCount = bulk.maxRetries
           /\ last > 0 /\ run.status = "running" /\ run.chunk = sent[last].chunk =>
                /\ sent[last].shape = "list"
                /\ run.command = sent[last].unprocessed
           /\ last > 0 /\ sent[last].shape = "list"
                       /\ sent[last].retryCount < bulk.maxRetries =>
                /\ run.status = "running"
                /\ run.chunk = sent[last].chunk
           /\ \A k \in 1..last :
                /\ sent[k].retryCount <= bulk.maxRetries
                /\ Cardinality(RequestsOf(sent[k].chunk)) <= bulk.maxRetries + 1
           /\ last <= Len(chunks) * (bulk.maxRetries + 1)
           /\ run.status = "running" =>
                last < run.chunk * (bulk.maxRetries + 1)

\* With the default maxRetries a chunk of two items got its fourth request,
\* and a request of the chunk resubmitted fewer items than the one before.
C28_Witness ==
    /\ bulk.operation \in BatchWrites
    /\ bulk.maxRetries = BatchWriteDefaultMaxRetries
    /\ \E k \in 2..Len(sent) :
         /\ sent[k].retryCount = BatchWriteDefaultMaxRetries
         /\ Cardinality(RequestsOf(sent[k].chunk)) = BatchWriteDefaultMaxRetries + 1
         /\ \E j \in RequestsOf(sent[k].chunk) : Len(sent[j].items) > Len(sent[k].items)

\* The last request the retry loop allows for its chunk came back with
\* unprocessed items.
Exhausted(k) == sent[k].shape = "list" /\ sent[k].retryCount = bulk.maxRetries

\* C29: when the retries of a chunk are exhausted while the last response
\* still reports unprocessed items, batchDeleteWrite and batchPutWrite raise
\* no failure: they go on to the next chunk, or return success after the last
\* one, and the reported items stay unwritten or undeleted.
C29_ExhaustedRetriesDropSilently ==
    bulk.operation \in BatchWrites /\ run.status # "called" =>
        LET chunks == chunkArray(bulk.input, BatchWriteMaxItems)
        IN \A k \in 1..Len(sent) : Exhausted(k) =>
             /\ SeqRange(sent[k].unprocessed) \cap run.applied = {}
             /\ IF k < Len(sent)
                THEN /\ sent[k + 1].chunk = sent[k].chunk + 1
                     /\ sent[k + 1].retryCount = 0
                     /\ sent[k + 1].items = chunks[sent[k].chunk + 1]
                ELSE IF sent[k].chunk < Len(chunks)
                     THEN /\ run.status = "running"
                          /\ run.chunk = sent[k].chunk + 1
                          /\ run.command = chunks[sent[k].chunk + 1]
                     ELSE /\ run.status = "returned"
                          /\ run.result = Ok

\* The operation returned success although the retries of its first chunk
\* were exhausted and an item of that chunk was never written.
C29_Witness ==
    /\ bulk.operation \in BatchWrites
    /\ run.status = "returned"
    /\ run.result = Ok
    /\ Len(chunkArray(bulk.input, BatchWriteMaxItems)) > 1
    /\ \E k \in 1..Len(sent) :
         /\ Exhausted(k)
         /\ sent[k].chunk = 1
         /\ SeqRange(sent[k].unprocessed) \ run.applied # {}

\* The first request of every chunk started so far, in the order sent.
FirstRequests == SelectSeq(sent, LAMBDA entry : entry.retryCount = 0)

\* The items of the first j chunks started, in the order sent.
ItemsOfFirst(j) == Flatten([c \in 1..j |-> FirstRequests[c].items])

\* C30: every bulk operation splits its input into consecutive chunks
\* processed one after the other in input order: each chunk is non-empty and
\* no longer than the operation's chunk size, every chunk but the last is
\* full, the chunks started so far make up a prefix of the input and, once
\* the operation returned, the whole input; an empty input yields no request.
C30_ChunksPartitionInput ==
    run.status # "called" =>
        LET stride == StrideOf(bulk.operation)
            started == Len(FirstRequests)
        IN /\ \A j \in 1..started :
                /\ FirstRequests[j].chunk = j
                /\ Len(FirstRequests[j].items) >= 1
                /\ Len(FirstRequests[j].items) <= stride
                /\ Len(FirstRequests[j].items) < stride =>
                     ItemsOfFirst(j) = bulk.input
                /\ Len(ItemsOfFirst(j)) <= Len(bulk.input)
                /\ ItemsOfFirst(j) = SubSeq(bulk.input, 1, Len(ItemsOfFirst(j)))
           /\ \A k \in 1..(Len(sent) - 1) :
                /\ sent[k + 1].chunk >= sent[k].chunk
                /\ sent[k + 1].chunk <= sent[k].chunk + 1
           /\ run.status = "returned" => ItemsOfFirst(started) = bulk.input
           /\ run.status = "running" =>
                /\ run.chunk = IF run.retryCount = 0 THEN started + 1 ELSE started
                /\ run.retryCount = 0 =>
                     ItemsOfFirst(started) \o run.command
                        = SubSeq(bulk.input, 1, Len(ItemsOfFirst(started)) + Len(run.command))
           /\ Len(bulk.input) = 0 => Len(sent) = 0 /\ run.status # "running"

\* A transactional write of five items returned after a full chunk and a
\* last chunk that is not full.
C30_Witness ==
    /\ bulk.operation \in TransactWrites
    /\ Len(bulk.input) = MaxBulkItems
    /\ run.status = "returned"
    /\ Len(sent) = 2
    /\ Len(sent[1].items) = TransactWriteMaxItems
    /\ Len(sent[2].items) < TransactWriteMaxItems

\* ----------------------------------------------------------------------
\* Tree-shape claims (specification TreeSpec)
\* ----------------------------------------------------------------------

\* Level-by-level construction with promotion: adjacent nodes of a level
\* are paired and hashed in sorted-pair order, an odd final node goes to the
\* next level unchanged.
RECURSIVE NextLevel(_)
NextLevel(level) ==
    IF Len(level) <= 1 THEN level
    ELSE <<standardNodeHash(level[1], level[2])>> \o NextLevel(SubSeq(level, 3, Len(level)))

RECURSIVE LevelRoot(_)
LevelRoot(level) == IF Len(level) = 1 THEN level[1] ELSE LevelRoot(NextLevel(level))

\* The sibling hashes of the node at position pos (1-based) of the level, from
\* this level up to, not including, the root; a promoted node has no sibling.
RECURSIVE LevelProof(_, _)
LevelProof(level, pos) ==
    IF Len(level) = 1 THEN <<>>
    ELSE LET sibling == IF pos % 2 = 1 THEN pos + 1 ELSE pos - 1
         IN (IF sibling <= Len(level) THEN <<level[sibling]>> ELSE <<>>)
               \o LevelProof(NextLevel(level), (pos + 1) \div 2)

\* The leaf hash of record i of the built tree, and the proof emitted for it.
LeafOf(i) ==
    standardLeafHash(<<built.records[i].WhitelistAddress, built.records[i].WhitelistAmountWei>>)
ProofOf(i) == getProof(built.tree, built.treeIndex[i])

\* The 0-based place of record i among the leaves in ascending hash order.
RankOf(i) == Cardinality({j \in 1..Len(built.records) : Less(LeafOf(j), LeafOf(i))})

\* The record whose leaf has place k in ascending hash order.
AtRank(k) == CHOOSE i \in 1..Len(built.records) : RankOf(i) = k

\* The built tree is the level-by-level construction over the leaves taken
\* in the order given by first (first[k] is the record of the k-th leaf).
BuiltLevelByLevel(first) ==
    LET n == Len(built.records)
        level == [k \in 1..n |-> LeafOf(first[k])]
    IN /\ built.root = LevelRoot(level)
       /\ \A k \in 1..n : ProofOf(first[k]) = LevelProof(level, k)

LeafOrders(n) ==
    {f \in [1..n -> 1..n] : \A i \in 1..n, j \in 1..n : i # j => f[i] # f[j]}

\* C31 as stated: the built tree is a level-by-level construction with
\* promotion of the odd final node, for some order of the leaves.
C31_Original ==
    built # NoTree => \E first \in LeafOrders(Len(built.records)) : BuiltLevelByLevel(first)

\* C31: the built tree is the complete binary tree over the leaves in
\* ascending hash order: every proof folds its leaf to the root by sorted-pair
\* hashing (sibling hashes up to, not including, the root), no node is
\* promoted, so the proof lengths of two leaves differ by at most one; up to
\* four leaves this is the level-by-level construction over the leaves in
\* ascending hash order, and five leaves have the shape of the on-chain
\* fixture: two proofs of three hashes that share their last two, two proofs
\* of two hashes that share their last one, and one proof of two hashes.
C31_CompleteTreeOverSortedLeaves ==
    built # NoTree =>
        LET n == Len(built.records)
        IN /\ \A i \in 1..n :
                /\ FoldSortedPairs(ProofOf(i), LeafOf(i)) = built.root
                /\ built.root \notin SeqRange(ProofOf(i))
                /\ n > 1 => ProofOf(i)[1] \in
                               {LeafOf(j) : j \in 1..n} \cup
                               {standardNodeHash(LeafOf(j), LeafOf(k)) : j, k \in 1..n}
           /\ \A i \in 1..n, j \in 1..n : Len(ProofOf(i)) <= Len(ProofOf(j)) + 1
           /\ n <= 4 => BuiltLevelByLevel([k \in 1..n |-> AtRank(k - 1)])
           /\ n = 5 =>
                /\ [k \in 1..5 |-> Len(ProofOf(AtRank(k - 1)))] = <<3, 3, 2, 2, 2>>
                /\ ProofOf(AtRank(0))[1] = LeafOf(AtRank(1))
                /\ ProofOf(AtRank(1))[1] = LeafOf(AtRank(0))
                /\ ProofOf(AtRank(0))[2] = LeafOf(AtRank(4))
                /\ Tail(ProofOf(AtRank(0))) = Tail(ProofOf(AtRank(1)))
                /\ ProofOf(AtRank(2))[1] = LeafOf(AtRank(3))
                /\ ProofOf(AtRank(3))[1] = LeafOf(AtRank(2))
                /\ Tail(ProofOf(AtRank(2))) = Tail(ProofOf(AtRank(3)))
                /\ ProofOf(AtRank(4))[1] = standardNodeHash(LeafOf(AtRank(0)), LeafOf(AtRank(1)))
                /\ ProofOf(AtRank(4))[2] = ProofOf(AtRank(0))[3]
                /\ ProofOf(AtRank(4))[2] = standardNodeHash(LeafOf(AtRank(2)), LeafOf(AtRank(3)))

\* The tree of five rows that did not come in ascending hash order was built
\* and stored, and the contract accepted the proof of a leaf of depth three.
C31_Witness ==
    /\ bpc = "stored"
    /\ Len(built.records) = 5
    /\ \E i \in 1..4 : Less(LeafOf(i + 1), LeafOf(i))
    /\ checked # NoCheck
    /\ checked.result = "true"
    /\ Len(ProofOf(checked.leaf)) = 3

\* ----------------------------------------------------------------------
\* Input rejection by CreateTree and UploadWhitelist
\* ----------------------------------------------------------------------

\* The ValidationError of createMerkleTree for a whitelist without content.
WhitelistNotFound == "Validation: Whitelist not found"

\* C32 (as stated, for the missing CSV blob): a CreateTree call that finds no
\* blob <name>.csv fails with Validation, and the roots table and the proofs
\* table are unchanged.
C32_MissingBlobIsValidation ==
    [][\A r \in Reqs :
          (pc[r] = "c_get" /\ blob = 0 /\ pc'[r] = "idle" /\ res'[r] # S3Error) =>
              /\ res'[r] \in Validation \cup {WhitelistNotFound}
              /\ rootsRow' = rootsRow
              /\ proofs' = proofs]_vars

\* The Merkle builder's input gate rejects the rows.
GateRejects(entries) ==
    \/ Len(entries) > ValidateWhitelistEntriesMaxCount
    \/ FirstRowError(entries) # ""
    \/ hasDuplicateAddresses(entries)

\* C33 (as stated): content that the input gate rejects is refused by
\* UploadWhitelist (the call ends with an error) and is not stored.
C33_UploadRunsInputGate ==
    (bpc # "received" /\ GateRejects(whitelistEntries)) =>
        /\ blob = 0
        /\ thrown # NoError

\* ----------------------------------------------------------------------
\* Readers of the proofs table (specification ProofsSpec)
\* ----------------------------------------------------------------------

\* C34 (as stated): a getMerkleProofs call that does not fail returns every
\* proof row of the COMPLETED tree whose roots row it read, also while a
\* DeleteTree runs on the name.
C34_ProofsAllOrNothing ==
    \A r \in Reqs :
        (pc[r] = "idle" /\ res[r] = ProofRecords) =>
            cmd[r] = SeqRange(WhitelistOf(root[r]))

\* ----------------------------------------------------------------------
\* Frame of a refused CreateTree (specification Spec)
\* ----------------------------------------------------------------------

\* C35: a CreateTree call whose insert of the roots row fails, because a
\* row exists or because the KV call fails, ends there with that error: it
\* does not go on to the proof inserts or to a compensating put, and the
\* roots row and the proof rows are as they were.
C35_FailedInsertWritesNothing ==
    [][\A r \in Reqs :
          (/\ pc[r] = "c_insert"
           /\ pc'[r] # "c_insert"
           /\ ~(InsertAllowed(rootsRow) /\ rootsRow' = Row(root[r], Creating))) =>
              /\ pc'[r] = "idle"
              /\ res'[r] \in {KvError} \cup InsertConflictErrors
              /\ rootsRow' = rootsRow
              /\ proofs' = proofs]_vars

\* A CreateTree call was refused as a duplicate while the COMPLETED tree of
\* another call stands with its proof rows.
C35_Witness ==
    \E r \in Reqs :
        /\ pc[r] = "idle"
        /\ res[r] = DuplicateItem
        /\ rootsRow # Absent
        /\ rootsRow.status = Completed
        /\ \E a \in Addrs : proofs[a] = rootsRow.root

\* ----------------------------------------------------------------------
\* Proof rows of a COMPLETED tree (specification Spec)
\* ----------------------------------------------------------------------

\* C36 (as stated): whenever the roots row is COMPLETED, the proof rows
\* stored under the name are exactly the proofs of the tree of the row's
\* MerkleRoot: none is missing and none is left from an earlier tree.
C36_CompletedHasExactlyItsProofs ==
    (rootsRow # Absent /\ rootsRow.status = Completed) =>
        \A a \in Addrs :
            proofs[a] = IF a \in SeqRange(WhitelistOf(rootsRow.root)) THEN rootsRow.root ELSE 0

\* ----------------------------------------------------------------------
\* The CSV blob of a tree (specification Spec)
\* ----------------------------------------------------------------------

\* C37 (as stated): whenever a roots row exists for the name, the blob
\* <name>.csv exists in the object store.
C37_RootsRowHasBlob == rootsRow # Absent => blob # 0

====
